---------------------------- MODULE Spec2Model ----------------------------
(***************************************************************************)
(* Model of docreader/parser/mineru_parser.py: the three MinerU parsing    *)
(* strategies (StdMinerUParser, MinerUCloudParser, MinerUAPIParser) and    *)
(* the strategy selection of MinerUParser.                                 *)
(*                                                                         *)
(* Text is a sequence of atoms (an atom stands for a run of characters     *)
(* that the code never splits), so "in", str.replace, startswith and       *)
(* endswith are modelled on sequences exactly as Python computes them on   *)
(* strings.  A network request is a program position (pc) at which the     *)
(* request is in flight; the action that leaves the position draws the     *)
(* response from the outcomes the remote side can produce.                 *)
(***************************************************************************)
EXTENDS Integers, Sequences, FiniteSets, TLC

(***************************************************************************)
(* Program constants and bounds                                            *)
(***************************************************************************)
POLL_INTERVAL == 2

MAX_WAIT_TIME == 600

\* longest time one status request takes before it returns or fails
MaxReqTime == 1

\* cap of the per-call count of failed status requests that is remembered
MaxNetErrs == 2

\* interval_seconds of the three tasks main() defines, and the sleep of its loop
DiscoverInterval == 600

SubmitInterval == 120

PollingInterval == 120

SleepSeconds == 1

\* time.time() when the scheduler starts (the clock is far past any interval)
Boot == 600

\* seconds of scheduler run time the model follows
MaxClock == 122

\* longest time one time.sleep(1) and the loop body around it take
MaxTick == 2

\* subprocess.Popen calls that raise
MaxPopenFails == 2

\* scan_files: files below this size are passed over
MinSize == 1024

\* LIMIT of the SELECT of submit_task and of polling_task
BATCH_SIZE == 50

\* st_mtime values a file can take
MaxMtime == 2

\* knowledge entries the RAG system creates
MaxKnowledge == 1

(***************************************************************************)
(* Strings as sequences of atoms                                           *)
(***************************************************************************)
\* Python: t in s
IsSubstr(t, s) ==
    \E i \in 0..(Len(s) - Len(t)) : SubSeq(s, i + 1, i + Len(t)) = t

\* Python: s.replace(t, u) for a non-empty t: leftmost, non-overlapping
RECURSIVE StrReplace(_, _, _)
StrReplace(s, t, u) ==
    IF Len(s) < Len(t) \/ Len(t) = 0 THEN s
    ELSE IF SubSeq(s, 1, Len(t)) = t
         THEN u \o StrReplace(SubSeq(s, Len(t) + 1, Len(s)), t, u)
         ELSE <<Head(s)>> \o StrReplace(Tail(s), t, u)

\* a dict with insertion order: a sequence of <<key, value>> pairs
DictKeys(d) == {d[i][1] : i \in 1..Len(d)}

DictPut(d, k, v) ==
    IF k \in DictKeys(d)
    THEN [i \in 1..Len(d) |-> IF d[i][1] = k THEN <<k, v>> ELSE d[i]]
    ELSE Append(d, <<k, v>>)

\* MarkdownImageUtil.replace_path: every reference token of the map is
\* replaced, literally, by its URL (tokens taken in the map's order)
RECURSIVE ReplacePath(_, _)
ReplacePath(content, image_replace) ==
    IF image_replace = <<>> THEN content
    ELSE ReplacePath(StrReplace(content, Head(image_replace)[1],
                                Head(image_replace)[2]),
                     Tail(image_replace))

\* markdownify.markdownify: HTML markup becomes markdown, the rest is kept
Markdownify(md) ==
    [i \in 1..Len(md) |-> IF md[i] = "<table>" THEN "|table|" ELSE md[i]]

(***************************************************************************)
(* Documents                                                               *)
(***************************************************************************)
\* Document(): content "" and no images
EmptyDocument == [content |-> <<>>, images |-> <<>>]

\* the arguments are dropped
Document_Default(text, imgs) == EmptyDocument

Document(text, imgs) == [content |-> text, images |-> imgs]

(***************************************************************************)
(* Inputs: what the remote services can answer                             *)
(***************************************************************************)
\* the reference token of an inline image id: f"images/{ipath}"
ImageToken(ipath) == <<"images", "/">> \o ipath

\* a base64 data URI "data:image/<fmt>;base64,<b64>" (pre = the prefix is
\* there), with b64 "AAAA" decodable, "!!" not decodable
Payload(pre, b64) == [pre |-> pre, fmt |-> "png", b64 |-> b64]

Image(key, pre, b64) == [key |-> key, payload |-> Payload(pre, b64)]

\* markdown bodies a service can return
MdDocs ==
    { <<"T">>,
      <<"T", "url1", "T">>,
      <<"T", "images", "/", "a", "T">>,
      <<"images", "/", "a", "T", "images", "/", "b">>,
      <<"<table>", "images", "/", "a", "b">> }

\* inline image maps a service can return (key order = JSON order)
ImgMaps ==
    { <<>>,
      <<Image(<<"a">>, TRUE, "AAAA")>>,
      <<Image(<<"a">>, TRUE, "AAAA"), Image(<<"b">>, TRUE, "AAAA")>>,
      <<Image(<<"a">>, FALSE, "AAAA"), Image(<<"b">>, TRUE, "AAAA")>>,
      <<Image(<<"a">>, TRUE, "!!"), Image(<<"b">>, TRUE, "AAAA")>>,
      <<Image(<<"a">>, TRUE, "AAAA"), Image(<<"a", "b">>, TRUE, "AAAA")>> }

\* every payload is taken as tagged
Base64Match_Any(payload) == TRUE

\* base64_pattern.match(b64_str): the payload starts with the data-URI tag
Base64Match(payload) == payload.pre

\* endecode.encode_image(b64, errors="ignore"): the decoded bytes, empty
\* when the text is not base64
EncodeImage(b64) == IF b64 = "AAAA" THEN <<"bytes">> ELSE <<>>

\* a status body: the fields under "data" (d_*), and the top-level ones
StatusBody(ds, dst, dfull, dother, s, st, tfull) ==
    [d_state |-> ds, d_status |-> dst, d_full_zip_url |-> dfull,
     d_other_zip_url |-> dother, state |-> s, status |-> st,
     full_zip_url |-> tfull]

\* no status response has ended the loop yet
NoBody == StatusBody("", "", "", "", "", "", "")

\* the URL the BlobStore returns for its n-th upload of a call
UrlTable == <<"url1", "url2", "url3", "url4", "url5", "url6">>

Url(n) == <<UrlTable[n]>>

\* the falsy value a BlobStore returns when it stores nothing
NoUrl == <<>>

\* outcomes of storage.upload_bytes
UploadOutcomes == {"url", "none", "raise"}

(***************************************************************************)
(* State                                                                   *)
(***************************************************************************)
VARIABLES
    cls,                \* the class the caller instantiates
    ctor,               \* constructor inputs (kwargs and CONFIG), until read
    oss,                \* CONFIG.oss_access_key and CONFIG.oss_bucket
    storage,            \* self.storage is set
    parser,             \* the parser class in use
    sel,                \* (endpoint, token) as MinerUParser.__init__ resolved them
    minerU,             \* self.minerU
    api_token,          \* self.api_token
    enable,             \* self.enable
    enable_markdownify, \* self.enable_markdownify
    pc,                 \* position of the caller / of the parse call
    taskState,          \* the ParseTask of the call
    elapsed,            \* time.time() - start_time
    netErrs,            \* failed status requests of the call (capped)
    task_id,            \* the task id read from the submit response
    state,              \* the status word read from the last status response
    status_json,        \* the status response that ended the poll loop of
                        \* the official API
    log,                \* kinds of requests the call issued, in order
    md_content,         \* the markdown as received (after markdownify)
    cands,              \* images_b64.items() / the archive's entries
    idx,                \* position of the image loop
    images,             \* the images dict of the call
    image_replace,      \* the reference -> URL dict of the call
    uploads,            \* reference tokens whose bytes went to the BlobStore
    nUp,                \* BlobStore uploads of the call that returned a URL
    file_url,           \* the source URL (official API)
    doc,                \* the returned Document
    waited,             \* the poll loop slept before it was left
    failure             \* the step of the call that failed ("" = none)

\* weiwo_bridge/scheduler.py
VARIABLES
    now,                \* time.time()
    sched_pc,           \* position of main(): "for", "sleep" or "stopped"
    task_i,             \* position of "for task in tasks"
    last_run_time,      \* task.last_run_time of each task
    process,            \* task.process of each task: "None", or the state of
                        \* the child process the handle refers to
    alive,              \* child processes of each task that have not exited
    popen_fails,        \* subprocess.Popen calls that raised (capped)
    started             \* time.time() of the latest Popen of each task that
                        \* returned (0 = none yet)

\* weiwo_bridge: discover_files.py, submit_task.py, polling_task.py
VARIABLES
    disk,               \* the files under the scanned directories
    rows,               \* document_status_table as committed, by filepath
    txn,                \* rows written by the open write transaction
    lock,               \* the script whose connection holds the write lock
    remote,             \* parse_status of each knowledge in the RAG system
    next_kid,           \* knowledge ids handed out so far (capped)
    record,             \* status of the script_process_record row of the
                        \* latest discover_files run ("none": no row)
    d_pc,               \* discover_files: position of main()
    d_status,           \* discover_files: status
    db_files,           \* discover_files: db_files
    current_files,      \* discover_files: current_files
    d_left,             \* discover_files: paths the running for loop has
                        \* not taken yet
    s_pc,               \* submit_task: position of main()
    s_left,             \* submit_task: tasks not taken yet
    p_pc,               \* polling_task: position of main()
    p_tasks,            \* polling_task: tasks, by filepath
    p_left              \* polling_task: tasks not taken yet

instVars == <<cls, ctor, oss, storage, parser, sel, minerU, api_token,
              enable, enable_markdownify>>

loopVars == <<md_content, cands, idx, images, image_replace, uploads, nUp>>

taskVars == <<taskState, elapsed, netErrs, waited, task_id, state,
             status_json>>

pollVars == <<taskVars, log>>

docVars == <<doc, failure>>

parserVars == <<instVars, pc, pollVars, loopVars, file_url, docVars>>

schedVars == <<now, sched_pc, task_i, last_run_time, process, alive,
               popen_fails, started>>

\* the state of the bridge scripts, which no parser call touches
envVars == <<disk, remote, next_kid>>

dbVars == <<rows, txn, lock, record>>

discoverVars == <<d_pc, d_status, db_files, current_files, d_left>>

submitVars == <<s_pc, s_left>>

pollingVars == <<p_pc, p_tasks, p_left>>

scriptVars == <<envVars, dbVars, discoverVars, submitVars, pollingVars>>

bridgeVars == <<schedVars, scriptVars>>

vars == <<parserVars, bridgeVars>>

\* the tasks list of main(), by name
tasks == <<"Discover Files", "Submit Task", "Polling Task">>

TaskNames == {tasks[i] : i \in 1..Len(tasks)}

interval_seconds ==
    [t \in TaskNames |->
        IF t = "Discover Files" THEN DiscoverInterval
        ELSE IF t = "Submit Task" THEN SubmitInterval
        ELSE PollingInterval]

\* the file paths followed (all with a supported extension)
Paths == {"a.pdf"}

Kids == 1..MaxKnowledge

\* no file at the path / no entry for the path in a dict
NoFile == [mtime |-> 0, size |-> 0]

\* what os.stat can report of a file: the file as written for the m-th
\* time (each time longer), or a file too small to be taken
FileInfos ==
    {[mtime |-> m, size |-> MinSize + m - 1] : m \in 1..MaxMtime}
    \cup {[mtime |-> 1, size |-> MinSize - 1]}

\* a row of document_status_table (knowledge_id 0 = NULL; file_status ""
\* = no row for the filepath)
Row(st, kid, mtime, size) ==
    [file_status |-> st, knowledge_id |-> kid, last_modified_time |-> mtime,
     file_size |-> size]

NoRow == Row("", 0, 0, 0)

\* init_db has created the empty tables; no script runs
ScriptsInit ==
    /\ disk = [p \in Paths |-> NoFile]
    /\ rows = [p \in Paths |-> NoRow]
    /\ txn = [p \in Paths |-> NoRow]
    /\ lock = ""
    /\ remote = [k \in Kids |-> "absent"]
    /\ next_kid = 0
    /\ record = "none"
    /\ d_pc = "idle"
    /\ d_status = "success"
    /\ db_files = [p \in Paths |-> NoRow]
    /\ current_files = [p \in Paths |-> NoFile]
    /\ d_left = {}
    /\ s_pc = "idle"
    /\ s_left = {}
    /\ p_pc = "idle"
    /\ p_tasks = [p \in Paths |-> NoRow]
    /\ p_left = {}

\* ScheduledTask.__init__ for every task, and main() about to enter its loop
SchedulerInit ==
    /\ now = Boot
    /\ sched_pc = "for"
    /\ task_i = 1
    /\ last_run_time = [t \in TaskNames |-> 0]
    /\ process = [t \in TaskNames |-> "None"]
    /\ alive = [t \in TaskNames |-> 0]
    /\ popen_fails = 0
    /\ started = [t \in TaskNames |-> 0]

Classes == {"MinerUParser", "StdMinerUParser", "MinerUCloudParser",
            "MinerUAPIParser"}

NoCtor == [kwEndpoint |-> "", kwToken |-> "", cfgEndpoint |-> "",
           cfgToken |-> "", markdownify |-> TRUE]

NoDoc == [content |-> <<"?">>, images |-> <<>>]

\* the upload count is kept on the instance and carried into the next call
CallReset_Carry ==
    /\ taskState' = "None"
    /\ elapsed' = 0
    /\ netErrs' = 0
    /\ task_id' = ""
    /\ state' = ""
    /\ status_json' = NoBody
    /\ md_content' = <<>>
    /\ cands' = <<>>
    /\ idx' = 0
    /\ images' = <<>>
    /\ image_replace' = <<>>
    /\ uploads' = {}
    /\ nUp' = nUp
    /\ file_url' = <<>>
    /\ waited' = FALSE
    /\ failure' = ""

\* the locals of a parse call before the call sets them
CallReset ==
    /\ taskState' = "None"
    /\ elapsed' = 0
    /\ netErrs' = 0
    /\ task_id' = ""
    /\ state' = ""
    /\ status_json' = NoBody
    /\ md_content' = <<>>
    /\ cands' = <<>>
    /\ idx' = 0
    /\ images' = <<>>
    /\ image_replace' = <<>>
    /\ uploads' = {}
    /\ nUp' = 0
    /\ file_url' = <<>>
    /\ waited' = FALSE
    /\ failure' = ""

Init ==
    /\ cls \in Classes
    /\ ctor \in [kwEndpoint : {"", "E"}, kwToken : {"", "K"},
                 cfgEndpoint : {"", "E"}, cfgToken : {"", "K"},
                 markdownify : IF cls = "MinerUAPIParser"
                               THEN {TRUE} ELSE BOOLEAN]
    /\ oss \in (IF cls \in {"MinerUParser", "MinerUAPIParser"}
                THEN BOOLEAN ELSE {FALSE})
    /\ storage \in BOOLEAN
    /\ parser = ""
    /\ sel = <<>>
    /\ minerU = ""
    /\ api_token = ""
    /\ enable = FALSE
    /\ enable_markdownify = TRUE
    /\ pc = "new"
    /\ taskState = "None"
    /\ elapsed = 0
    /\ netErrs = 0
    /\ task_id = ""
    /\ state = ""
    /\ status_json = NoBody
    /\ log = <<>>
    /\ md_content = <<>>
    /\ cands = <<>>
    /\ idx = 0
    /\ images = <<>>
    /\ image_replace = <<>>
    /\ uploads = {}
    /\ nUp = 0
    /\ file_url = <<>>
    /\ doc = NoDoc
    /\ waited = FALSE
    /\ SchedulerInit
    /\ ScriptsInit
    /\ failure = ""

(***************************************************************************)
(* Construction                                                            *)
(***************************************************************************)
\* Python: a or b on strings
Or(a, b) == IF a # "" THEN a ELSE b

\* the token is looked at before the endpoint
SelectParser_TokenFirst(mineru_endpoint, mineru_api_token) ==
    IF mineru_api_token # "" THEN "MinerUAPIParser"
    ELSE "StdMinerUParser"

\* MinerUParser.__init__: the parser class for (endpoint, token)
SelectParser(mineru_endpoint, mineru_api_token) ==
    IF mineru_endpoint # "" THEN "StdMinerUParser"
    ELSE IF mineru_api_token # "" THEN "MinerUAPIParser"
    ELSE "StdMinerUParser"

\* StdMinerUParser.ping: GET /docs; without an endpoint the URL "/docs" is
\* no URL and the request raises
PingOutcomes(base_url) == IF base_url = "" THEN {FALSE} ELSE {TRUE, FALSE}

\* the constructors: MinerUParser picks the class, StdMinerUParser.__init__
\* resolves the endpoint and probes it, MinerUAPIParser.__init__ resolves the
\* token and forces enable
Construct ==
    /\ pc = "new"
    /\ LET endpoint == Or(ctor.kwEndpoint, ctor.cfgEndpoint)
           token    == Or(ctor.kwToken, ctor.cfgToken)
           chosen   == IF cls = "MinerUParser"
                       THEN SelectParser(endpoint, token) ELSE cls
       IN /\ parser' = chosen
          /\ sel' = IF cls = "MinerUParser" THEN <<endpoint, token>> ELSE <<>>
          /\ minerU' = endpoint
          /\ api_token' = IF chosen = "MinerUAPIParser" THEN token ELSE ""
          /\ \E ping \in PingOutcomes(endpoint) :
                enable' = IF chosen = "MinerUAPIParser" THEN TRUE ELSE ping
          /\ enable_markdownify' = ctor.markdownify
    /\ ctor' = NoCtor
    /\ pc' = "idle"
    /\ UNCHANGED <<cls, oss, storage, pollVars, loopVars, file_url, docVars>>

(***************************************************************************)
(* StdMinerUParser.parse_into_text                                         *)
(***************************************************************************)
\* the request log after a request of the given kind went out; repeated
\* status requests, and repeated uploads of a kind, take one place
Logged(kind) ==
    IF log # <<>> /\ log[Len(log)] = kind /\ kind # "result"
    THEN log ELSE Append(log, kind)

\* the call returns d
Return(d) == /\ doc' = d
             /\ pc' = "returned"
             /\ failure' = failure

\* the step named kind failed and the call returns Document()
ReturnEmpty(kind) == /\ doc' = EmptyDocument
                     /\ pc' = "returned"
                     /\ failure' = kind

\* the step named kind raised and the exception leaves parse_into_text
Raise(kind) == /\ doc' = NoDoc
               /\ pc' = "raised"
               /\ failure' = kind

CallEnded == pc \in {"idle", "returned", "raised"}

\* StdStart without the "if not self.enable" gate
StdStart_NoGate ==
    /\ CallEnded
    /\ parser = "StdMinerUParser"
    /\ CallReset
    /\ pc' = "file_parse"
    /\ doc' = NoDoc
    /\ log' = <<"file_parse">>
    /\ UNCHANGED instVars

StdStart ==
    /\ CallEnded
    /\ parser = "StdMinerUParser"
    /\ CallReset
    /\ IF ~enable
       THEN pc' = "returned" /\ doc' = EmptyDocument /\ log' = <<>>
       ELSE pc' = "file_parse" /\ doc' = NoDoc /\ log' = <<"file_parse">>
    /\ UNCHANGED instVars

\* POST /file_parse answers: an error (request, HTTP status, JSON shape), or
\* results.files with md_content and images
StdFileParseFails ==
    /\ pc = "file_parse"
    /\ ReturnEmpty("request")
    /\ UNCHANGED <<instVars, pollVars, loopVars, file_url>>

\* the markdown handed to the image loop
Converted(md) == IF enable_markdownify THEN Markdownify(md) ELSE md

StdFileParseOk ==
    /\ pc = "file_parse"
    /\ \E md \in MdDocs, imgs \in ImgMaps :
          /\ md_content' = Converted(md)
          /\ cands' = imgs
    /\ idx' = 1
    /\ pc' = "std_images"
    /\ UNCHANGED <<instVars, pollVars, images, image_replace, uploads, nUp,
                   file_url, docVars>>

\* the inline candidate is kept: referenced by the markdown, tagged as a
\* data URI, and decodable
InlineKept(c, md) ==
    /\ IsSubstr(ImageToken(c.key), md)
    /\ Base64Match(c.payload)
    /\ EncodeImage(c.payload.b64) # <<>>

\* the text of a payload as the service sent it
DataUri(payload) ==
    IF payload.pre THEN "data:image/" \o payload.fmt \o ";base64," \o payload.b64
    ELSE payload.b64

\* the payload is recorded as received, tag included
InlineValue_Raw(c) == DataUri(c.payload)

\* the value recorded for an inline image: match.group(2)
InlineValue(c) == c.payload.b64

\* the loop body found nothing to upload
SkipCandidate ==
    /\ idx' = idx + 1
    /\ UNCHANGED <<md_content, cands, images, image_replace, uploads, nUp,
                   pc, docVars>>

\* storage.upload_bytes returned url for the candidate with reference token
RecordInline(token, value, url) ==
    /\ images' = DictPut(images, url, value)
    /\ image_replace' = DictPut(image_replace, token, url)
    /\ idx' = idx + 1
    /\ UNCHANGED <<md_content, cands, pc, docVars>>

\* one iteration of "for ipath, b64_str in images_b64.items()"
StdImageStep ==
    /\ pc = "std_images"
    /\ idx <= Len(cands)
    /\ LET c == cands[idx]
           token == ImageToken(c.key)
       IN IF ~InlineKept(c, md_content)
          THEN SkipCandidate
          ELSE /\ uploads' = uploads \cup {token}
               /\ \E o \in UploadOutcomes :
                     IF ~storage \/ o = "raise"
                     THEN /\ Raise("image_upload")
                          /\ UNCHANGED <<md_content, cands, idx, images,
                                         image_replace, nUp>>
                     ELSE IF o = "url"
                     THEN /\ nUp' = nUp + 1
                          /\ RecordInline(token, InlineValue(c), Url(nUp + 1))
                     ELSE /\ nUp' = nUp
                          /\ RecordInline(token, InlineValue(c), NoUrl)
    /\ log' = IF InlineKept(cands[idx], md_content)
              THEN Logged("image") ELSE log
    /\ UNCHANGED <<instVars, taskVars, file_url>>

StdFinish ==
    /\ pc = "std_images"
    /\ idx > Len(cands)
    /\ Return(Document(ReplacePath(md_content, image_replace), images))
    /\ UNCHANGED <<instVars, pollVars, loopVars, file_url>>

(***************************************************************************)
(* MinerUCloudParser.parse_into_text                                       *)
(***************************************************************************)
\* the probe is run again at the start of every call
CloudStart_Reprobe ==
    /\ CallEnded
    /\ parser = "MinerUCloudParser"
    /\ CallReset
    /\ \E ping \in PingOutcomes(minerU) :
          /\ enable' = ping
          /\ IF ~ping
             THEN pc' = "returned" /\ doc' = EmptyDocument /\ log' = <<>>
             ELSE pc' = "submit" /\ doc' = NoDoc /\ log' = <<"submit">>
    /\ UNCHANGED <<cls, ctor, oss, storage, parser, sel, minerU, api_token,
                   enable_markdownify>>

CloudStart ==
    /\ CallEnded
    /\ parser = "MinerUCloudParser"
    /\ CallReset
    /\ IF ~enable
       THEN pc' = "returned" /\ doc' = EmptyDocument /\ log' = <<>>
       ELSE pc' = "submit" /\ doc' = NoDoc /\ log' = <<"submit">>
    /\ UNCHANGED instVars

\* the handler logs and re-raises
CaughtAtBoundary_Reraise(kind) == Raise(kind)

\* "except Exception" around the whole call: the exception of the step
\* named kind is logged and Document() returned
CaughtAtBoundary(kind) == ReturnEmpty(kind)

\* JSON bodies of POST /submit (absent fields are "")
CloudSubmitBodies ==
    { [task_id |-> "t1", data |-> [task_id |-> ""]],
      [task_id |-> "t1", data |-> [task_id |-> "t2"]],
      [task_id |-> "", data |-> [task_id |-> "t1"]],
      [task_id |-> "", data |-> [task_id |-> ""]] }

\* the id nested under data is read before the top-level one
CloudTaskId_NestedFirst(resp_data) ==
    Or(resp_data.data.task_id, resp_data.task_id)

\* resp_data.get("task_id") or resp_data.get("data", {}).get("task_id")
CloudTaskId(resp_data) == Or(resp_data.task_id, resp_data.data.task_id)

\* POST /submit fails: request error, HTTP status, body that is not JSON
CloudSubmitFails ==
    /\ pc = "submit"
    /\ CaughtAtBoundary("submit")
    /\ UNCHANGED <<instVars, pollVars, loopVars, file_url>>

\* start_time = time.time() once a task id is at hand
StartPolling(id) ==
    /\ taskState' = "Submitted"
    /\ task_id' = id
    /\ elapsed' = 0
    /\ netErrs' = 0
    /\ waited' = FALSE
    /\ UNCHANGED <<state, status_json, log>>
    /\ pc' = "poll"
    /\ UNCHANGED docVars

CloudSubmitOk ==
    /\ pc = "submit"
    /\ \E resp_data \in CloudSubmitBodies :
          IF CloudTaskId(resp_data) = ""
          THEN CaughtAtBoundary("no_task_id") /\ UNCHANGED pollVars
          ELSE StartPolling(CloudTaskId(resp_data))
    /\ UNCHANGED <<instVars, loopVars, file_url>>

\* the check fires at the bound already
TimedOut_AtBound(t) == t >= MAX_WAIT_TIME

\* time.time() - start_time > self.MAX_WAIT_TIME
TimedOut(t) == t > MAX_WAIT_TIME

\* top of "while True": the elapsed-time check, then the status request
PollCheck ==
    /\ pc = "poll"
    /\ IF TimedOut(elapsed)
       THEN /\ taskState' = "TimedOut"
            /\ CaughtAtBoundary("timeout")
            /\ log' = log
       ELSE /\ taskState' = "Polling"
            /\ pc' = "status"
            /\ log' = Logged("status")
            /\ UNCHANGED docVars
    /\ UNCHANGED <<instVars, elapsed, netErrs, waited, task_id, state,
                   status_json, loopVars, file_url>>

\* the clock does not move while the call sleeps
SleepAndLoop_NoClock(d) ==
    /\ elapsed' = elapsed
    /\ pc' = "poll"
    /\ taskState' = taskState
    /\ waited' = waited
    /\ UNCHANGED <<task_id, log, docVars>>

\* time.sleep(self.POLL_INTERVAL) after a request that took d, back to the
\* top of the loop
SleepAndLoop(d) ==
    /\ elapsed' = elapsed + d + POLL_INTERVAL
    /\ pc' = "poll"
    /\ taskState' = taskState
    /\ waited' = waited
    /\ UNCHANGED <<task_id, log, docVars>>

\* a failed status request ends the call
StatusRequestError_Terminal ==
    /\ pc = "status"
    /\ netErrs' = IF netErrs < MaxNetErrs THEN netErrs + 1 ELSE netErrs
    /\ taskState' = "Failed"
    /\ CaughtAtBoundary("status_request")
    /\ UNCHANGED <<instVars, elapsed, waited, task_id, state, status_json,
                   log, loopVars, file_url>>

\* the status request raised requests.RequestException
StatusRequestError ==
    /\ pc = "status"
    /\ \E d \in 0..MaxReqTime : SleepAndLoop(d)
    /\ netErrs' = IF netErrs < MaxNetErrs THEN netErrs + 1 ELSE netErrs
    /\ UNCHANGED <<instVars, state, status_json, loopVars, file_url>>

\* the unusable status body is passed over and the result is fetched
StatusBroken_Fetch ==
    /\ pc = "status"
    /\ taskState' = "Failed"
    /\ pc' = "result"
    /\ log' = Logged("result")
    /\ UNCHANGED <<instVars, elapsed, netErrs, waited, task_id, state,
                   status_json, loopVars, file_url, docVars>>

\* the status request raised something else (a body that is no JSON object)
StatusBroken ==
    /\ pc = "status"
    /\ taskState' = "Failed"
    /\ CaughtAtBoundary("status_body")
    /\ UNCHANGED <<instVars, elapsed, netErrs, waited, task_id, state,
                   status_json, log, loopVars, file_url>>

\* the words a remote status field holds ("" = the field is absent)
StatusWords == {"", "running", "done", "success", "failed", "error",
                "completed", "succeeded"}

\* JSON bodies of GET /status/{task_id}
CloudStatusBodies ==
    {[status |-> w, state |-> ""] : w \in StatusWords}
    \cup {[status |-> "", state |-> w] : w \in {"done", "failed", "running"}}
    \cup {[status |-> "running", state |-> "done"]}

\* state = status_data.get("status") or status_data.get("state")
CloudState(status_data) == Or(status_data.status, status_data.state)

\* the success words of the official API are taken over
CloudIsSuccess_WithCompleted(word) ==
    word \in {"done", "success", "completed", "succeeded"}

CloudIsSuccess(word) == word \in {"done", "success"}

\* "error" is taken as a failure word as well
CloudIsFailure_WithError(word) == word \in {"failed", "error"}

CloudIsFailure(word) == word = "failed"

\* the loop is left by break: start_time is not read again
BreakLoop(next) ==
    /\ taskState' = "Done"
    /\ elapsed' = 0
    /\ waited' = (elapsed > 0)
    /\ netErrs' = netErrs
    /\ pc' = next
    /\ log' = Logged("result")
    /\ UNCHANGED <<task_id, docVars>>

\* the failure state is logged and the loop goes on
RemoteFailure_Continue ==
    /\ taskState' = "Failed"
    /\ elapsed' = elapsed + POLL_INTERVAL
    /\ pc' = "poll"
    /\ UNCHANGED <<netErrs, waited, task_id, log, docVars>>

\* raise RuntimeError(f"Task {task_id} failed: {error_msg}")
RemoteFailure ==
    /\ taskState' = "Failed"
    /\ CaughtAtBoundary("remote")
    /\ UNCHANGED <<elapsed, netErrs, waited, task_id, log>>

CloudStatusOk ==
    /\ parser = "MinerUCloudParser"
    /\ pc = "status"
    /\ \E status_data \in CloudStatusBodies :
          /\ state' = CloudState(status_data)
          /\ status_json' = status_json
          /\ IF CloudIsSuccess(state') THEN BreakLoop("result")
             ELSE IF CloudIsFailure(state') THEN RemoteFailure
             ELSE /\ \E d \in 0..MaxReqTime : SleepAndLoop(d)
                  /\ netErrs' = netErrs
    /\ UNCHANGED <<instVars, loopVars, file_url>>

\* GET /result/{task_id} fails, or its body has no usable shape
CloudResultFails ==
    /\ pc = "result"
    /\ CaughtAtBoundary("result")
    /\ UNCHANGED <<instVars, pollVars, loopVars, file_url>>

\* JSON bodies of GET /result/{task_id}: the fields under "result", or flat
CloudResultBodies ==
    {[nested |-> n, md_content |-> md, images |-> imgs] :
        n \in BOOLEAN, md \in MdDocs, imgs \in ImgMaps}

CloudResultOk ==
    /\ pc = "result"
    /\ \E result_json \in CloudResultBodies :
          /\ md_content' = Converted(result_json.md_content)
          /\ cands' = result_json.images
    /\ idx' = 1
    /\ pc' = "cloud_images"
    /\ UNCHANGED <<instVars, pollVars, images, image_replace, uploads, nUp,
                   file_url, docVars>>

\* one iteration of "for ipath, b64_str in images_b64.items()"
CloudImageStep ==
    /\ pc = "cloud_images"
    /\ idx <= Len(cands)
    /\ LET c == cands[idx]
           token == ImageToken(c.key)
       IN IF ~InlineKept(c, md_content) \/ ~storage
          THEN SkipCandidate
          ELSE /\ uploads' = uploads \cup {token}
               /\ \E o \in UploadOutcomes :
                     IF o = "raise"
                     THEN /\ CaughtAtBoundary("image_upload")
                          /\ UNCHANGED <<md_content, cands, idx, images,
                                         image_replace, nUp>>
                     ELSE IF o = "url"
                     THEN /\ nUp' = nUp + 1
                          /\ RecordInline(token, InlineValue(c), Url(nUp + 1))
                     ELSE /\ nUp' = nUp
                          /\ RecordInline(token, InlineValue(c), NoUrl)
    /\ log' = IF InlineKept(cands[idx], md_content) /\ storage
              THEN Logged("image") ELSE log
    /\ UNCHANGED <<instVars, taskVars, file_url>>

CloudFinish ==
    /\ pc = "cloud_images"
    /\ idx > Len(cands)
    /\ Return(Document(IF image_replace # <<>>
                       THEN ReplacePath(md_content, image_replace)
                       ELSE md_content,
                       images))
    /\ UNCHANGED <<instVars, pollVars, loopVars, file_url>>

(***************************************************************************)
(* MinerUAPIParser.parse_into_text                                         *)
(***************************************************************************)
\* source URLs an uploader can return
OssUrl == <<"https://", "bucket.oss-cn.aliyuncs.com", "/", "mineru_temp/f.pdf">>

StorageUrls == { <<"https://", "cos.example.com", "/", "f.pdf">>,
                 <<"http://", "minio", ":9000/", "f.pdf">>,
                 <<"http://", "localhost", ":9000/", "f.pdf">> }

LocalMarkers == {"localhost", "127.0.0.1", "minio", "host.docker.internal"}

\* any(x in file_url for x in [...]): only a warning is logged
HasLocalMarker(url) == \E x \in LocalMarkers : IsSubstr(<<x>>, url)

\* the call goes on without a token
APIStart_NoTokenGate ==
    /\ CallEnded
    /\ parser = "MinerUAPIParser"
    /\ CallReset
    /\ pc' = IF oss THEN "oss_upload" ELSE "src_upload"
    /\ doc' = NoDoc
    /\ log' = <<"source">>
    /\ UNCHANGED instVars

APIStart ==
    /\ CallEnded
    /\ parser = "MinerUAPIParser"
    /\ CallReset
    /\ IF api_token = ""
       THEN pc' = "returned" /\ doc' = EmptyDocument /\ log' = <<>>
       ELSE /\ pc' = IF oss THEN "oss_upload" ELSE "src_upload"
            /\ doc' = NoDoc
            /\ log' = <<"source">>
    /\ UNCHANGED instVars

\* without a URL from the OSS uploader the call gives up
APIOssUpload_NoFallback ==
    /\ pc = "oss_upload"
    /\ \/ file_url' = OssUrl /\ pc' = "api_submit" /\ log' = Logged("submit")
             /\ UNCHANGED docVars
       \/ file_url' = <<>> /\ ReturnEmpty("source_upload") /\ log' = log
    /\ UNCHANGED <<instVars, taskVars, loopVars>>

\* AliyunOSSHelper().upload_bytes(content, ".pdf"): a URL, or None (missing
\* bucket or region, status other than 200, put_object raising), or the
\* constructor raising; without a URL the default storage is tried
APIOssUpload ==
    /\ pc = "oss_upload"
    /\ \/ file_url' = OssUrl /\ pc' = "api_submit" /\ log' = Logged("submit")
       \/ file_url' = <<>> /\ pc' = "src_upload" /\ log' = Logged("source")
    /\ UNCHANGED <<instVars, taskVars, loopVars, docVars>>

\* a source URL with a local-network marker ends the call
APISrcUpload_RejectLocal ==
    /\ pc = "src_upload"
    /\ \E o \in UploadOutcomes :
          IF ~storage \/ o = "raise"
          THEN /\ CaughtAtBoundary("source_upload")
               /\ UNCHANGED <<file_url, log>>
          ELSE IF o = "none"
          THEN /\ ReturnEmpty("source_upload")
               /\ file_url' = NoUrl
               /\ log' = log
          ELSE \E u \in StorageUrls :
                  /\ file_url' = u
                  /\ IF HasLocalMarker(u)
                     THEN ReturnEmpty("source_upload") /\ log' = log
                     ELSE /\ pc' = "api_submit"
                          /\ log' = Logged("submit")
                          /\ UNCHANGED docVars
    /\ UNCHANGED <<instVars, taskVars, loopVars>>

\* self.storage.upload_bytes(content, file_ext=".pdf")
APISrcUpload ==
    /\ pc = "src_upload"
    /\ \E o \in UploadOutcomes :
          IF ~storage \/ o = "raise"
          THEN /\ CaughtAtBoundary("source_upload")
               /\ UNCHANGED <<file_url, log>>
          ELSE IF o = "none"
          THEN /\ ReturnEmpty("source_upload")
               /\ file_url' = NoUrl
               /\ log' = log
          ELSE /\ \E u \in StorageUrls : file_url' = u
               /\ pc' = "api_submit"
               /\ log' = Logged("submit")
               /\ UNCHANGED docVars
    /\ UNCHANGED <<instVars, taskVars, loopVars>>

\* JSON bodies of POST /extract/task: data is a string, an object, or absent
APISubmitBodies ==
    { [kind |-> "str", str |-> "abc123", id |-> "", task_id |-> ""],
      [kind |-> "str", str |-> "", id |-> "", task_id |-> ""],
      [kind |-> "dict", str |-> "", id |-> "abc123", task_id |-> ""],
      [kind |-> "dict", str |-> "", id |-> "abc123", task_id |-> "t9"],
      [kind |-> "dict", str |-> "", id |-> "", task_id |-> "abc123"],
      [kind |-> "dict", str |-> "", id |-> "", task_id |-> ""],
      [kind |-> "none", str |-> "", id |-> "", task_id |-> ""] }

\* the object's task_id field is read before its id field
APITaskId_TaskIdFirst(task_data) ==
    IF task_data.kind = "str" THEN task_data.str
    ELSE IF task_data.kind = "dict" THEN Or(task_data.task_id, task_data.id)
    ELSE ""

\* task_data = resp_json.get("data"): the string itself, or the object's id
\* or task_id
APITaskId(task_data) ==
    IF task_data.kind = "str" THEN task_data.str
    ELSE IF task_data.kind = "dict" THEN Or(task_data.id, task_data.task_id)
    ELSE ""

APISubmitFails ==
    /\ pc = "api_submit"
    /\ CaughtAtBoundary("submit")
    /\ UNCHANGED <<instVars, pollVars, loopVars, file_url>>

\* file_url went out with the request and is not read again
APISubmitOk ==
    /\ pc = "api_submit"
    /\ \E task_data \in APISubmitBodies :
          IF APITaskId(task_data) = ""
          THEN CaughtAtBoundary("no_task_id")
               /\ UNCHANGED <<pollVars, file_url>>
          ELSE StartPolling(APITaskId(task_data)) /\ file_url' = <<>>
    /\ UNCHANGED <<instVars, loopVars>>

\* JSON bodies of GET /extract/task/{task_id}
APIStatusBodies ==
    {StatusBody(w, "", "Z", "", "", "", "") : w \in StatusWords}
    \cup {StatusBody("", w, "Z", "", "", "", "") :
             w \in {"done", "failed", "running"}}
    \cup { StatusBody("done", "", "", "Y", "", "", ""),
           StatusBody("done", "", "Z", "Y", "", "", ""),
           StatusBody("done", "", "", "", "", "", ""),
           StatusBody("", "", "", "", "done", "", "Z"),
           StatusBody("", "", "Z", "", "done", "", ""),
           StatusBody("", "", "", "", "", "success", "Z"),
           StatusBody("", "", "", "", "error", "", ""),
           StatusBody("", "", "", "", "running", "", ""),
           StatusBody("running", "", "", "", "done", "", "Z") }

\* the root of the response is looked at before its data field
APIState_TopFirst(resp) ==
    LET top == Or(resp.state, resp.status)
    IN IF top = "" THEN Or(resp.d_state, resp.d_status)
       ELSE top

\* state = data.get("state") or data.get("status"), else the same at the root
APIState(resp) ==
    LET nested == Or(resp.d_state, resp.d_status)
    IN IF nested = "" THEN Or(resp.state, resp.status)
       ELSE nested

APIIsSuccess(word) == word \in {"done", "success", "completed", "succeeded"}

APIIsFailure(word) == word \in {"failed", "error"}

\* result_data = data; full_zip_url, else the first *zip_url field set
ZipUrl(resp) ==
    Or(resp.d_full_zip_url, resp.d_other_zip_url)

APIStatusOk ==
    /\ parser = "MinerUAPIParser"
    /\ pc = "status"
    /\ \E body \in APIStatusBodies :
          /\ state' = APIState(body)
          /\ status_json' = IF APIIsSuccess(state') \/ APIIsFailure(state')
                            THEN body ELSE status_json
          /\ IF APIIsSuccess(state')
             THEN IF ZipUrl(body) = ""
                  THEN /\ taskState' = "Done"
                       /\ CaughtAtBoundary("no_zip_url")
                       /\ UNCHANGED <<elapsed, netErrs, waited, task_id, log>>
                  ELSE BreakLoop("zip")
             ELSE IF APIIsFailure(state') THEN RemoteFailure
             ELSE /\ \E d \in 0..MaxReqTime : SleepAndLoop(d)
                  /\ netErrs' = netErrs
    /\ UNCHANGED <<instVars, loopVars, file_url>>

(***************************************************************************)
(* The result archive (official API).  A name is the sequence of its path  *)
(* components; its text joins them with "/".                               *)
(***************************************************************************)
\* the characters of one component: ".." is two "."
CompText(c) == IF c = ".." THEN <<".", ".">> ELSE <<c>>

RECURSIVE PathText(_)
PathText(path) ==
    IF path = <<>> THEN <<>>
    ELSE IF Len(path) = 1 THEN CompText(path[1])
    ELSE CompText(path[1]) \o <<"/">> \o PathText(Tail(path))

\* an archive entry: its name, its text (a markdown entry) and whether it
\* holds any bytes
Entry(name, text, hasBytes) ==
    [name |-> name, text |-> text, hasBytes |-> hasBytes]

RefA == <<"T", "images", "/", "fig1.png", "T">>

RefDotA == <<"T", ".", "/", "images", "/", "fig1.png">>

Archives ==
    { <<Entry(<<"out", "full.md">>, RefA, TRUE),
        Entry(<<"out", "images", "fig1.png">>, <<>>, TRUE)>>,
      <<Entry(<<"out", "images", "fig1.png">>, <<>>, TRUE),
        Entry(<<"out", "images", "unused.png">>, <<>>, TRUE),
        Entry(<<"out", "full.md">>, RefDotA, TRUE)>>,
      <<Entry(<<"other.md">>, <<"T">>, TRUE),
        Entry(<<"full.md">>, RefA, TRUE),
        Entry(<<"images", "fig1.png">>, <<>>, TRUE)>>,
      <<Entry(<<"__MACOSX", "full.md">>, RefA, TRUE),
        Entry(<<"images", "fig1.png">>, <<>>, TRUE)>>,
      <<Entry(<<"__MACOSX", "other.md">>, <<"T">>, TRUE),
        Entry(<<"out", "other.md">>, RefA, TRUE),
        Entry(<<"out", "images", "fig1.png">>, <<>>, FALSE),
        Entry(<<"out", "images", "FIG2.PNG">>, <<>>, TRUE)>>,
      <<Entry(<<"out", "images", "fig1.png">>, <<>>, TRUE)>> }

\* name.endswith("full.md"), name.endswith(".md")
EndsWithFullMd(name) == name[Len(name)] \in {"full.md"}

EndsWithMd(name) == name[Len(name)] \in {"full.md", "other.md"}

\* name.startswith("__MACOSX")
IsMetadata(name) == name[1] = "__MACOSX"

\* name.lower().endswith(('.png', '.jpg', '.jpeg', '.gif', '.bmp', '.webp'))
IsImageName(name) == name[Len(name)] \in {"fig1.png", "unused.png", "FIG2.PNG"}

\* the first index of a "for ... break" search over the indices S, 0 when
\* the loop finds none
FirstIndex(S) ==
    IF S = {} THEN 0 ELSE CHOOSE i \in S : \A j \in S : i <= j

\* the first *.md outside __MACOSX is taken, full.md or not
MdIndex_FirstMd(z) ==
    FirstIndex({i \in 1..Len(z) :
                   EndsWithMd(z[i].name) /\ ~IsMetadata(z[i].name)})

\* md_filename: the first *full.md outside __MACOSX, else the first *.md
MdIndex(z) ==
    LET full == {i \in 1..Len(z) :
                    EndsWithFullMd(z[i].name) /\ ~IsMetadata(z[i].name)}
        any == {i \in 1..Len(z) :
                   EndsWithMd(z[i].name) /\ ~IsMetadata(z[i].name)}
    IN IF FirstIndex(full) # 0 THEN FirstIndex(full) ELSE FirstIndex(any)

\* os.path.dirname(md_filename)
DirName(name) == SubSeq(name, 1, Len(name) - 1)

\* length of the longest common prefix of two paths
RECURSIVE CommonLen(_, _)
CommonLen(p, q) ==
    IF p = <<>> \/ q = <<>> \/ Head(p) # Head(q) THEN 0
    ELSE 1 + CommonLen(Tail(p), Tail(q))

\* the entry name is taken as it stands in the archive
RelPath_FromRoot(name, start) == name

\* os.path.relpath(name, md_dir)
RelPath(name, start) ==
    LET k == CommonLen(name, start)
    IN [i \in 1..(Len(start) - k) |-> ".."] \o SubSeq(name, k + 1, Len(name))

\* GET zip_url fails, or its body is no ZIP archive, or the markdown entry
\* is not UTF-8
APIZipFails ==
    /\ pc = "zip"
    /\ CaughtAtBoundary("zip")
    /\ UNCHANGED <<instVars, pollVars, loopVars, file_url>>

APIZipOk ==
    /\ pc = "zip"
    /\ \E z \in Archives :
          IF MdIndex(z) = 0
          THEN /\ ReturnEmpty("no_markdown")
               /\ cands' = z
               /\ UNCHANGED <<md_content, idx, images, image_replace,
                              uploads, nUp>>
          ELSE /\ md_content' = z[MdIndex(z)].text
               /\ cands' = z
               /\ idx' = 1
               /\ pc' = "api_images"
               /\ UNCHANGED <<images, image_replace, uploads, nUp, docVars>>
    /\ UNCHANGED <<instVars, pollVars, file_url>>

\* images[img_url] = ""; image_replace[rel_path] and ["./" + rel_path]
RecordArchiveImage(rel_path, url) ==
    /\ images' = DictPut(images, url, "")
    /\ image_replace' = DictPut(DictPut(image_replace, PathText(rel_path), url),
                                <<".", "/">> \o PathText(rel_path), url)
    /\ idx' = idx + 1
    /\ UNCHANGED <<md_content, cands, pc, docVars>>

\* what z.read(name) does for an image entry: its bytes, or an exception
ReadOutcomes == {"bytes", "raise"}

\* "except Exception as img_err": the entry is logged and left out
ImageEntryFails(kind) ==
    /\ idx' = idx + 1
    /\ failure' = kind
    /\ UNCHANGED <<md_content, cands, images, image_replace, nUp, pc, doc>>

\* one iteration of "for name in z.namelist()" over the image entries
APIImageStep ==
    /\ pc = "api_images"
    /\ idx <= Len(cands)
    /\ LET e == cands[idx]
           md_dir == DirName(cands[MdIndex(cands)].name)
           rel_path == RelPath(e.name, md_dir)
       IN IF IsMetadata(e.name) \/ ~IsImageName(e.name)
          THEN SkipCandidate
          ELSE \E r \in ReadOutcomes :
               IF r = "raise"
               THEN ImageEntryFails("image_read") /\ uploads' = uploads
               ELSE IF ~e.hasBytes
               THEN SkipCandidate
               ELSE
               /\ uploads' = uploads \cup {PathText(rel_path)}
               /\ \E o \in UploadOutcomes :
                     IF ~storage \/ o = "raise"
                     THEN ImageEntryFails("image_upload")
                     ELSE IF o = "url"
                     THEN /\ nUp' = nUp + 1
                          /\ RecordArchiveImage(rel_path, Url(nUp + 1))
                     ELSE /\ nUp' = nUp
                          /\ RecordArchiveImage(rel_path, NoUrl)
    /\ log' = IF uploads' # uploads THEN Logged("image") ELSE log
    /\ UNCHANGED <<instVars, taskVars, file_url>>

APIFinish ==
    /\ pc = "api_images"
    /\ idx > Len(cands)
    /\ Return(Document(IF image_replace # <<>>
                       THEN ReplacePath(md_content, image_replace)
                       ELSE md_content,
                       images))
    /\ UNCHANGED <<instVars, pollVars, loopVars, file_url>>

Next ==
    \/ Construct /\ UNCHANGED bridgeVars
    \/ StdStart /\ UNCHANGED bridgeVars
    \/ StdFileParseFails /\ UNCHANGED bridgeVars
    \/ StdFileParseOk /\ UNCHANGED bridgeVars
    \/ StdImageStep /\ UNCHANGED bridgeVars
    \/ StdFinish /\ UNCHANGED bridgeVars
    \/ CloudStart /\ UNCHANGED bridgeVars
    \/ CloudSubmitFails /\ UNCHANGED bridgeVars
    \/ CloudSubmitOk /\ UNCHANGED bridgeVars
    \/ PollCheck /\ UNCHANGED bridgeVars
    \/ StatusRequestError /\ UNCHANGED bridgeVars
    \/ StatusBroken /\ UNCHANGED bridgeVars
    \/ CloudStatusOk /\ UNCHANGED bridgeVars
    \/ CloudResultFails /\ UNCHANGED bridgeVars
    \/ CloudResultOk /\ UNCHANGED bridgeVars
    \/ CloudImageStep /\ UNCHANGED bridgeVars
    \/ CloudFinish /\ UNCHANGED bridgeVars
    \/ APIStart /\ UNCHANGED bridgeVars
    \/ APIOssUpload /\ UNCHANGED bridgeVars
    \/ APISrcUpload /\ UNCHANGED bridgeVars
    \/ APISubmitFails /\ UNCHANGED bridgeVars
    \/ APISubmitOk /\ UNCHANGED bridgeVars
    \/ APIStatusOk /\ UNCHANGED bridgeVars
    \/ APIZipFails /\ UNCHANGED bridgeVars
    \/ APIZipOk /\ UNCHANGED bridgeVars
    \/ APIImageStep /\ UNCHANGED bridgeVars
    \/ APIFinish /\ UNCHANGED bridgeVars

Spec == Init /\ [][Next]_vars

\* the constructions with an endpoint and a token at hand and a storage set
\* (the official-API parser built without an endpoint)
LiveInit ==
    /\ Init
    /\ ctor = [kwEndpoint |-> IF cls = "MinerUAPIParser" THEN "" ELSE "E",
               kwToken |-> "K", cfgEndpoint |-> "", cfgToken |-> "",
               markdownify |-> TRUE]
    /\ storage

\* the calling thread is never blocked for good: every request returns or
\* hits its per-request timeout, and every sleep ends
LiveSpec == LiveInit /\ [][Next]_vars /\ WF_vars(Next)

(***************************************************************************)
(* weiwo_bridge/scheduler.py                                               *)
(***************************************************************************)
\* the check is skipped: no task is ever taken as running
IsRunning_Never(p) == FALSE

\* the value is_running returns: the handle is set and poll() is None
IsRunning(p) == p = "running"

\* task.process once is_running has returned: the handle of a process that
\* has finished is dropped
AfterPoll(p) == IF p = "exited" THEN "None" ELSE p

\* the start time is not stored
PopenOk_NoStamp(task) ==
    /\ process' = [process EXCEPT ![task] = "running"]
    /\ alive' = [alive EXCEPT ![task] = @ + 1]
    /\ started' = [started EXCEPT ![task] = now]
    /\ last_run_time' = last_run_time
    /\ popen_fails' = popen_fails

\* subprocess.Popen returned: the handle and the start time are stored
PopenOk(task) ==
    /\ process' = [process EXCEPT ![task] = "running"]
    /\ alive' = [alive EXCEPT ![task] = @ + 1]
    /\ started' = [started EXCEPT ![task] = now]
    /\ last_run_time' = [last_run_time EXCEPT ![task] = now]
    /\ popen_fails' = popen_fails

\* subprocess.Popen raised: the error is logged, nothing is stored
PopenRaises(task) ==
    /\ popen_fails < MaxPopenFails
    /\ popen_fails' = popen_fails + 1
    /\ process' = [process EXCEPT ![task] = AfterPoll(process[task])]
    /\ UNCHANGED <<alive, last_run_time, started>>

\* one task.run_if_needed() of "for task in tasks"
RunIfNeeded ==
    /\ sched_pc = "for"
    /\ LET task == tasks[task_i]
           current_time == now
       IN IF IsRunning(process[task])
          THEN UNCHANGED <<process, alive, last_run_time, popen_fails,
                           started>>
          ELSE IF current_time - last_run_time[task] >= interval_seconds[task]
          THEN PopenOk(task) \/ PopenRaises(task)
          ELSE /\ process' = [process EXCEPT ![task] = AfterPoll(process[task])]
               /\ UNCHANGED <<alive, last_run_time, popen_fails, started>>
    /\ IF task_i < Len(tasks)
       THEN task_i' = task_i + 1 /\ sched_pc' = "for"
       ELSE task_i' = 1 /\ sched_pc' = "sleep"
    /\ UNCHANGED <<now, parserVars, scriptVars>>

\* time.sleep(1) at the end of one pass over the tasks
Sleep ==
    /\ sched_pc = "sleep"
    /\ now < Boot + MaxClock
    /\ \E d \in SleepSeconds..MaxTick : now' = now + d
    /\ sched_pc' = "for"
    /\ UNCHANGED <<task_i, last_run_time, process, alive, popen_fails,
                   started, parserVars, scriptVars>>

\* the script a task started comes to its end
ProcessExits ==
    /\ \E t \in TaskNames :
          /\ process[t] = "running"
          /\ process' = [process EXCEPT ![t] = "exited"]
          /\ alive' = [alive EXCEPT ![t] = @ - 1]
    /\ UNCHANGED <<now, sched_pc, task_i, last_run_time, popen_fails,
                   started, parserVars, scriptVars>>

\* KeyboardInterrupt: every process that still runs is terminated (killed
\* after five seconds) and main() returns
Interrupt ==
    /\ sched_pc \in {"for", "sleep"}
    /\ sched_pc' = "stopped"
    /\ process' = [t \in TaskNames |->
                      IF process[t] = "running" THEN "exited" ELSE process[t]]
    /\ alive' = [t \in TaskNames |->
                    IF process[t] = "running" THEN alive[t] - 1 ELSE alive[t]]
    /\ UNCHANGED <<now, task_i, last_run_time, popen_fails, started,
                   parserVars, scriptVars>>

SchedNext ==
    \/ RunIfNeeded
    \/ Sleep
    \/ ProcessExits
    \/ Interrupt

\* the scheduler next to a parser that is never constructed
SchedInit ==
    /\ Init
    /\ cls = "StdMinerUParser"
    /\ ctor = NoCtor
    /\ ~oss
    /\ ~storage

SchedSpec == SchedInit /\ [][SchedNext]_vars

(***************************************************************************)
(* weiwo_bridge: the SQLite database and the world around the scripts      *)
(***************************************************************************)
NoRows == [p \in Paths |-> NoRow]

\* the row of a filepath as the connection of script sc reads it: its own
\* uncommitted write, or else the committed row
View(sc, p) == IF lock = sc /\ txn[p] # NoRow THEN txn[p] ELSE rows[p]

\* an INSERT or UPDATE of script sc gets the write lock (at once, or
\* within the busy timeout of sqlite3.connect)
CanWrite(sc) == lock \in {"", sc}

\* another connection keeps the write lock past the busy timeout: the
\* statement raises sqlite3.OperationalError
Blocked(sc) == lock \notin {"", sc}

\* cursor.execute of an INSERT or UPDATE: the row is written inside the
\* transaction the statement opens or continues
Write(sc, p, row) ==
    /\ txn' = [txn EXCEPT ![p] = row]
    /\ lock' = sc

\* conn.commit()
Commit(sc) ==
    IF lock = sc
    THEN /\ rows' = [p \in Paths |-> IF txn[p] # NoRow THEN txn[p] ELSE rows[p]]
         /\ txn' = NoRows
         /\ lock' = ""
    ELSE UNCHANGED <<rows, txn, lock>>

\* the finally block of a script's main(): a new connection inserts the
\* script_process_record row and commits, unless the write lock is not to
\* be had (the error is logged); then the process ends, and what its first
\* connection had not committed is rolled back. Of the rows written only
\* those of discover_files.py are followed.
RecordAndExit(sc, status) ==
    /\ \/ /\ lock = ""
          /\ record' = IF sc = "discover_files.py" THEN status ELSE record
       \/ lock # "" /\ record' = record
    /\ lock' = IF lock = sc THEN "" ELSE lock
    /\ txn' = IF lock = sc THEN NoRows ELSE txn
    /\ rows' = rows

\* status codes of DELETE /api/v1/knowledge/{id} ("error": any other
\* code, or the request raised)
DeleteOutcomes(kid) ==
    IF remote[kid] = "absent" THEN {"404", "error"} ELSE {"200", "error"}

\* a file is written, replaced, removed or created
FileChange ==
    /\ \E p \in Paths, v \in FileInfos \cup {NoFile} :
          /\ v # disk[p]
          /\ disk' = [disk EXCEPT ![p] = v]
    /\ UNCHANGED <<remote, next_kid, dbVars, discoverVars, submitVars,
                   pollingVars, parserVars, schedVars>>

\* the RAG system goes on parsing a knowledge
RemoteProgress ==
    /\ \E k \in Kids :
          \/ /\ remote[k] = "pending"
             /\ remote' = [remote EXCEPT ![k] = "processing"]
          \/ /\ remote[k] = "processing"
             /\ \E st \in {"completed", "failed"} :
                   remote' = [remote EXCEPT ![k] = st]
    /\ UNCHANGED <<disk, next_kid, dbVars, discoverVars, submitVars,
                   pollingVars, parserVars, schedVars>>

(***************************************************************************)
(* weiwo_bridge/discover_files.py                                          *)
(***************************************************************************)
\* scan_files keeps a file of at least MinSize bytes
Found(info) == info # NoFile /\ info.size >= MinSize

\* the scheduler starts the script (never while its last process runs)
DiscoverStart ==
    /\ d_pc = "idle"
    /\ d_pc' = "select"
    /\ d_status' = "success"
    /\ db_files' = NoRows
    /\ current_files' = [p \in Paths |-> NoFile]
    /\ d_left' = {}
    /\ record' = "none"
    /\ UNCHANGED <<envVars, rows, txn, lock, submitVars, pollingVars,
                   parserVars, schedVars>>

\* SELECT ... WHERE file_status != 'deleted'
DiscoverSelect ==
    /\ d_pc = "select"
    /\ db_files' = [p \in Paths |->
                       IF rows[p].file_status \notin {"", "deleted"}
                       THEN rows[p] ELSE NoRow]
    /\ d_pc' = "scan"
    /\ UNCHANGED <<envVars, dbVars, d_status, current_files, d_left,
                   submitVars, pollingVars, parserVars, schedVars>>

\* current_files = scan_files(); new_filepaths
DiscoverScan ==
    /\ d_pc = "scan"
    /\ current_files' = [p \in Paths |->
                            IF Found(disk[p]) THEN disk[p] ELSE NoFile]
    /\ d_left' = {p \in Paths :
                     current_files'[p] # NoFile /\ db_files[p] = NoRow}
    /\ d_pc' = "insert"
    /\ UNCHANGED <<envVars, dbVars, d_status, db_files, submitVars,
                   pollingVars, parserVars, schedVars>>

\* a statement of the run raised: status = "fail", on to the finally block
DiscoverFails ==
    /\ d_status' = "fail"
    /\ d_pc' = "record"
    /\ d_left' = d_left

\* one INSERT of "for fp in new_filepaths"; filepath is UNIQUE
DiscoverInsert ==
    /\ d_pc = "insert"
    /\ \E fp \in d_left :
          \/ /\ CanWrite("discover_files.py")
             /\ IF View("discover_files.py", fp) # NoRow
                THEN /\ DiscoverFails
                     /\ lock' = "discover_files.py"
                     /\ txn' = txn
                ELSE /\ Write("discover_files.py", fp,
                              Row("discover", 0, current_files[fp].mtime,
                                  current_files[fp].size))
                     /\ d_left' = d_left \ {fp}
                     /\ UNCHANGED <<d_pc, d_status>>
          \/ /\ Blocked("discover_files.py")
             /\ DiscoverFails
             /\ UNCHANGED <<txn, lock>>
    /\ UNCHANGED <<envVars, rows, record, db_files, current_files,
                   submitVars, pollingVars, parserVars, schedVars>>

\* a for loop is through: potential_updates, deleted_filepaths, commit
DiscoverLoopDone ==
    /\ d_pc \in {"insert", "update", "delete"}
    /\ d_left = {}
    /\ d_pc' = IF d_pc = "insert" THEN "update"
               ELSE IF d_pc = "update" THEN "delete" ELSE "commit"
    /\ d_left' = IF d_pc = "insert"
                 THEN {p \in Paths :
                         current_files[p] # NoFile /\ db_files[p] # NoRow}
                 ELSE IF d_pc = "update"
                 THEN {p \in Paths :
                         current_files[p] = NoFile /\ db_files[p] # NoRow}
                 ELSE {}
    /\ UNCHANGED <<envVars, dbVars, d_status, db_files, current_files,
                   submitVars, pollingVars, parserVars, schedVars>>

\* delete_knowledge_api(knowledge_id) with outcome o; the value it returns
\* is not read by main()
DeleteKnowledge(kid, o) ==
    remote' = IF kid # 0 /\ o = "200"
              THEN [remote EXCEPT ![kid] = "absent"] ELSE remote

\* the UPDATE of a loop body, after the delete call
DiscoverWrite(fp, row) ==
    \/ /\ CanWrite("discover_files.py")
       /\ Write("discover_files.py", fp, row)
       /\ d_left' = d_left \ {fp}
       /\ UNCHANGED <<d_pc, d_status>>
    \/ /\ Blocked("discover_files.py")
       /\ DiscoverFails
       /\ UNCHANGED <<txn, lock>>

\* the row is left as it is
DiscoverSkip(fp) ==
    /\ d_left' = d_left \ {fp}
    /\ UNCHANGED <<remote, txn, lock, d_pc, d_status>>

\* one iteration of "for fp in potential_updates"
DiscoverUpdate ==
    /\ d_pc = "update"
    /\ \E fp \in d_left :
          LET curr_info == current_files[fp]
              db_info == db_files[fp]
          IN IF db_info.file_status = "processing"
             THEN DiscoverSkip(fp)
             ELSE IF \/ curr_info.mtime > db_info.last_modified_time
                     \/ curr_info.size # db_info.file_size
             THEN /\ \E o \in (IF db_info.knowledge_id # 0
                                THEN DeleteOutcomes(db_info.knowledge_id)
                                ELSE {"none"}) :
                        DeleteKnowledge(db_info.knowledge_id, o)
                  /\ DiscoverWrite(fp, Row("discover", 0, curr_info.mtime,
                                           curr_info.size))
             ELSE DiscoverSkip(fp)
    /\ UNCHANGED <<disk, next_kid, rows, record, db_files, current_files,
                   submitVars, pollingVars, parserVars, schedVars>>

\* one iteration of "for fp in deleted_filepaths"
DiscoverDelete ==
    /\ d_pc = "delete"
    /\ \E fp \in d_left :
          LET db_info == db_files[fp]
          IN /\ \E o \in (IF db_info.knowledge_id # 0
                           THEN DeleteOutcomes(db_info.knowledge_id)
                           ELSE {"none"}) :
                   DeleteKnowledge(db_info.knowledge_id, o)
             /\ DiscoverWrite(fp, [View("discover_files.py", fp)
                                     EXCEPT !.file_status = "deleted"])
    /\ UNCHANGED <<disk, next_kid, rows, record, db_files, current_files,
                   submitVars, pollingVars, parserVars, schedVars>>

\* conn.commit(); conn.close()
DiscoverCommit ==
    /\ d_pc = "commit"
    /\ Commit("discover_files.py")
    /\ d_pc' = "record"
    /\ UNCHANGED <<envVars, record, d_status, db_files, current_files,
                   d_left, submitVars, pollingVars, parserVars, schedVars>>

\* finally: the statistics row, and the process ends
DiscoverRecord ==
    /\ d_pc = "record"
    /\ RecordAndExit("discover_files.py", d_status)
    /\ d_pc' = "idle"
    /\ d_status' = "success"
    /\ db_files' = NoRows
    /\ current_files' = [p \in Paths |-> NoFile]
    /\ d_left' = {}
    /\ UNCHANGED <<envVars, submitVars, pollingVars, parserVars, schedVars>>

(***************************************************************************)
(* weiwo_bridge/submit_task.py                                             *)
(***************************************************************************)
\* the rows a SELECT ... LIMIT BATCH_SIZE can return out of the set S
Limited(S) ==
    {T \in SUBSET S :
        Cardinality(T) = IF Cardinality(S) < BATCH_SIZE
                         THEN Cardinality(S) ELSE BATCH_SIZE}

\* conn.close(): what the connection has not committed is rolled back
Close(sc) ==
    /\ txn' = IF lock = sc THEN NoRows ELSE txn
    /\ lock' = IF lock = sc THEN "" ELSE lock
    /\ rows' = rows

\* the scheduler starts the script; without KNOWLEDGE_BASE_ID in its
\* environment main() returns at once
SubmitStart ==
    /\ s_pc = "idle"
    /\ record' = record
    /\ \E KNOWLEDGE_BASE_ID \in {"", "kb"} :
          s_pc' = IF KNOWLEDGE_BASE_ID = "" THEN "idle" ELSE "select"
    /\ s_left' = {}
    /\ UNCHANGED <<envVars, rows, txn, lock, discoverVars, pollingVars,
                   parserVars, schedVars>>

\* SELECT ... WHERE file_status = 'discover' LIMIT ?
SubmitSelect ==
    /\ s_pc = "select"
    /\ \E T \in Limited({p \in Paths : rows[p].file_status = "discover"}) :
          /\ s_left' = T
          /\ s_pc' = IF T = {} THEN "record" ELSE "loop"
    /\ UNCHANGED <<envVars, dbVars, discoverVars, pollingVars, parserVars,
                   schedVars>>

\* the "data" of the response of POST .../knowledge/file as main() reads
\* it: id 0 = no "id" in it, parse_status "" = no "parse_status" in it
SubmitData == [id : {0, 1}, parse_status : {"", "pending", "processing"}]

\* api_data.get('parse_status', 'processing')
NewStatus(api_data) ==
    IF api_data.parse_status = "" THEN "processing" ELSE api_data.parse_status

\* the UPDATE of one task and the conn.commit() after it
SubmitWrite(fp, row) ==
    \/ /\ CanWrite("submit_task.py")
       /\ rows' = [rows EXCEPT ![fp] = row]
       /\ s_left' = s_left \ {fp}
       /\ s_pc' = IF s_left = {fp} THEN "record" ELSE "loop"
       /\ UNCHANGED <<txn, lock>>
    \/ /\ Blocked("submit_task.py")
       /\ s_pc' = "record"
       /\ UNCHANGED <<rows, txn, lock, s_left>>

\* one iteration of "for task in tasks": submit_file_to_rag, then the
\* UPDATE by id
SubmitStep ==
    /\ s_pc = "loop"
    /\ \E fp \in s_left :
          \/ /\ disk[fp] # NoFile
             /\ next_kid < MaxKnowledge
             /\ \E api_data \in SubmitData :
                   /\ next_kid' = next_kid + 1
                   /\ remote' = [remote EXCEPT ![next_kid + 1] =
                                    NewStatus(api_data)]
                   /\ SubmitWrite(fp,
                         [rows[fp] EXCEPT
                            !.file_status = NewStatus(api_data),
                            !.knowledge_id = IF api_data.id = 0 THEN 0
                                             ELSE next_kid + 1])
          \/ /\ UNCHANGED <<remote, next_kid>>
             /\ SubmitWrite(fp, [rows[fp] EXCEPT !.file_status = "failed"])
    /\ UNCHANGED <<disk, record, discoverVars, pollingVars, parserVars,
                   schedVars>>

\* finally: the statistics row, and the process ends
SubmitRecord ==
    /\ s_pc = "record"
    /\ RecordAndExit("submit_task.py", "success")
    /\ s_pc' = "idle"
    /\ s_left' = {}
    /\ UNCHANGED <<envVars, discoverVars, pollingVars, parserVars,
                   schedVars>>

(***************************************************************************)
(* weiwo_bridge/polling_task.py                                            *)
(***************************************************************************)
PollingStart ==
    /\ p_pc = "idle"
    /\ p_pc' = "select"
    /\ p_tasks' = NoRows
    /\ p_left' = {}
    /\ record' = record
    /\ UNCHANGED <<envVars, rows, txn, lock, discoverVars, submitVars,
                   parserVars, schedVars>>

\* SELECT ... WHERE file_status IN ('pending', 'processing')
\*   AND knowledge_id IS NOT NULL LIMIT ?
PollingSelect ==
    /\ p_pc = "select"
    /\ \E T \in Limited({p \in Paths :
                            /\ rows[p].file_status \in {"pending", "processing"}
                            /\ rows[p].knowledge_id # 0}) :
          /\ p_left' = T
          /\ p_tasks' = [p \in Paths |-> IF p \in T THEN rows[p] ELSE NoRow]
          /\ p_pc' = IF T = {} THEN "record" ELSE "loop"
    /\ UNCHANGED <<envVars, dbVars, discoverVars, submitVars, parserVars,
                   schedVars>>

\* what check_knowledge_status can return for a knowledge: "none" (None:
\* request failed), "not_found" (404), "" (data without parse_status), or
\* the parse_status of the knowledge
StatusOutcomes(kid) ==
    IF remote[kid] = "absent" THEN {"none", "not_found"}
    ELSE {"none", "", remote[kid]}

\* the loop goes on to the next task, or main() closes the connection
PollingNext(fp) ==
    /\ p_left' = p_left \ {fp}
    /\ p_pc' = IF p_left = {fp} THEN "record" ELSE "loop"

\* an iteration that reaches conn.commit(), after the UPDATE if there is one
PollingCommit(fp, st) ==
    LET mine == IF lock = "polling_task.py" THEN txn ELSE NoRows
        written == IF st = "" THEN mine
                   ELSE [mine EXCEPT ![fp] =
                           [View("polling_task.py", fp)
                              EXCEPT !.file_status = st]]
    IN /\ rows' = [p \in Paths |->
                     IF written[p] # NoRow THEN written[p] ELSE rows[p]]
       /\ txn' = IF lock = "polling_task.py" THEN NoRows ELSE txn
       /\ lock' = IF lock = "polling_task.py" THEN "" ELSE lock

\* one iteration of "for task in tasks"
PollingStep ==
    /\ p_pc = "loop"
    /\ \E fp \in p_left :
          LET knowledge_id == p_tasks[fp].knowledge_id
              current_status == p_tasks[fp].file_status
          IN \E remote_status \in StatusOutcomes(knowledge_id) :
                IF remote_status = "not_found"
                THEN \/ /\ CanWrite("polling_task.py")
                        /\ Write("polling_task.py", fp,
                                 [View("polling_task.py", fp)
                                    EXCEPT !.file_status = "failed"])
                        /\ rows' = rows
                        /\ PollingNext(fp)
                     \/ /\ Blocked("polling_task.py")
                        /\ p_pc' = "record"
                        /\ UNCHANGED <<rows, txn, lock, p_left>>
                ELSE IF remote_status = ""
                THEN PollingNext(fp) /\ UNCHANGED <<rows, txn, lock>>
                ELSE IF remote_status \in {"none", current_status}
                THEN PollingCommit(fp, "") /\ PollingNext(fp)
                ELSE \/ /\ CanWrite("polling_task.py")
                        /\ PollingCommit(fp, remote_status)
                        /\ PollingNext(fp)
                     \/ /\ Blocked("polling_task.py")
                        /\ p_pc' = "record"
                        /\ UNCHANGED <<rows, txn, lock, p_left>>
    /\ UNCHANGED <<envVars, record, p_tasks, discoverVars, submitVars,
                   parserVars, schedVars>>

\* the loop is through, or there was no task: conn.close()
PollingClose ==
    /\ p_pc = "record"
    /\ p_left = {}
    /\ lock = "polling_task.py"
    /\ Close("polling_task.py")
    /\ UNCHANGED <<envVars, record, pollingVars, discoverVars, submitVars,
                   parserVars, schedVars>>

\* finally: the statistics row, and the process ends
PollingRecord ==
    /\ p_pc = "record"
    /\ ~(p_left = {} /\ lock = "polling_task.py")
    /\ RecordAndExit("polling_task.py", "success")
    /\ p_pc' = "idle"
    /\ p_left' = {}
    /\ p_tasks' = NoRows
    /\ UNCHANGED <<envVars, discoverVars, submitVars, parserVars, schedVars>>

\* the three scripts, each started again and again, and the world around
BridgeNext ==
    \/ FileChange
    \/ RemoteProgress
    \/ DiscoverStart
    \/ DiscoverSelect
    \/ DiscoverScan
    \/ DiscoverInsert
    \/ DiscoverLoopDone
    \/ DiscoverUpdate
    \/ DiscoverDelete
    \/ DiscoverCommit
    \/ DiscoverRecord
    \/ SubmitStart
    \/ SubmitSelect
    \/ SubmitStep
    \/ SubmitRecord
    \/ PollingStart
    \/ PollingSelect
    \/ PollingStep
    \/ PollingClose
    \/ PollingRecord

\* the scripts next to a parser that is never constructed and a scheduler
\* that is not followed
BridgeInit == SchedInit

BridgeSpec == BridgeInit /\ [][BridgeNext]_vars

\* a step of polling_task
PollingRuns ==
    \/ PollingStart
    \/ PollingSelect
    \/ PollingStep
    \/ PollingClose
    \/ PollingRecord

\* the scheduler goes on starting polling_task, and polling_task goes on
\* once it is started
BridgeLiveSpec == BridgeSpec /\ WF_vars(PollingRuns)

(***************************************************************************)
(* Claims                                                                  *)
(***************************************************************************)
AsyncParsers == {"MinerUCloudParser", "MinerUAPIParser"}

\* C1: StdMinerUParser.parse_into_text never raises: whatever a collaborator
\* does (request error, malformed body, BlobStore upload raising during the
\* image loop), the call returns a document, the empty one on failure.
C1_StdNeverRaises ==
    parser = "StdMinerUParser" =>
        /\ pc # "raised"
        /\ (pc = "returned" /\ failure # "" => doc = EmptyDocument)

\* the failures C2 lists: source upload, submission, missing task id,
\* remote failure state, poll timeout, missing zip URL, corrupt ZIP, missing
\* markdown, image upload raising
C2_Failures ==
    {"source_upload", "submit", "no_task_id", "remote", "timeout",
     "no_zip_url", "zip", "no_markdown", "image_upload"}

\* C2 as claimed: in both async strategies every failure of a step, an
\* image upload raising included, ends the call with the empty document and
\* no exception.
C2_EveryFailureEmpty ==
    parser \in AsyncParsers =>
        /\ pc # "raised"
        /\ (pc = "returned" /\ failure \in C2_Failures => doc = EmptyDocument)

\* C2 as amended: no exception leaves the call in either async strategy, and
\* every failure ends the call with the empty document, except a failure to
\* read or upload one image entry in MinerUAPIParser, which drops that entry
\* only: the call still returns the markdown.
C2_FailureBoundary ==
    parser \in AsyncParsers =>
        /\ pc # "raised"
        /\ (/\ pc = "returned"
            /\ failure # ""
            /\ ~(/\ parser = "MinerUAPIParser"
                 /\ failure \in {"image_read", "image_upload"})
            => doc = EmptyDocument)
        /\ (pc = "returned" /\ doc # EmptyDocument /\ failure # "" =>
               /\ taskState = "Done"
               /\ doc.content = IF image_replace # <<>>
                                THEN ReplacePath(md_content, image_replace)
                                ELSE md_content)

\* C2 witness: a poll timeout in MinerUAPIParser gave the empty document
C2_Witness ==
    /\ parser = "MinerUAPIParser"
    /\ pc = "returned"
    /\ failure = "timeout"
    /\ taskState = "TimedOut"
    /\ doc = EmptyDocument

\* C3: a StdMinerUParser whose probe failed at construction returns the
\* empty document from every parse call and never issues POST /file_parse.
C3_DisabledNoRequest ==
    (parser = "StdMinerUParser" /\ ~enable) =>
        /\ pc \notin {"file_parse", "std_images", "raised"}
        /\ (pc = "returned" => doc = EmptyDocument)
        /\ uploads = {}

\* C3 witness: an endpoint was configured, the probe failed, a call returned
C3_Witness ==
    /\ parser = "StdMinerUParser"
    /\ minerU # ""
    /\ ~enable
    /\ pc = "returned"
    /\ doc = EmptyDocument

\* C4: every key of the images of a returned document is a URL that occurs
\* literally in the returned content; stated for MinerUAPIParser, whose
\* archive may hold image entries the markdown does not reference.
C4_ImageKeysInContent ==
    (parser = "MinerUAPIParser" /\ pc = "returned") =>
        \A k \in DictKeys(doc.images) : IsSubstr(k, doc.content)

\* C5: no BlobStore upload is attempted for an image candidate whose
\* reference token is not a literal substring of the markdown.
C5_UploadsReferenced ==
    \A t \in uploads : IsSubstr(t, md_content)

\* C6 as claimed: PollTimeout fires iff the elapsed time is >= the maximum
\* wait: no status request goes out once 600 is reached.
C6_TimeoutAtBound ==
    /\ (taskState = "TimedOut" => elapsed >= MAX_WAIT_TIME)
    /\ (pc = "status" => elapsed < MAX_WAIT_TIME)

\* C6 as amended: PollTimeout fires iff the check at the top of a poll
\* iteration finds the elapsed time strictly greater than the maximum wait;
\* a status request is issued at every check that finds it <= 600.
C6_TimeoutPastBound ==
    /\ (taskState = "TimedOut" => elapsed > MAX_WAIT_TIME)
    /\ (pc = "status" => elapsed <= MAX_WAIT_TIME)
    /\ (failure = "timeout" <=> taskState = "TimedOut")

\* C6 witness: the first check past the bound timed the call out
C6_Witness ==
    /\ parser \in AsyncParsers
    /\ taskState = "TimedOut"
    /\ elapsed = MAX_WAIT_TIME + 1
    /\ pc = "returned"
    /\ doc = EmptyDocument

TerminalStates == {"Done", "Failed", "TimedOut"}

Rank(st) ==
    CASE st = "None" -> 0
      [] st = "Submitted" -> 1
      [] st = "Polling" -> 2
      [] OTHER -> 3

\* C7: within one call the ParseTask only moves forward through Submitted,
\* Polling and one of Done, Failed, TimedOut; a terminal state is kept and no
\* status request follows it; a call that obtained a task id ends in exactly
\* one terminal state.
C7_TaskMonotonic ==
    /\ [][~CallEnded =>
            /\ Rank(taskState') >= Rank(taskState)
            /\ (taskState \in TerminalStates =>
                   taskState' = taskState /\ pc' \notin {"poll", "status"})
            /\ (taskState = "Submitted" => taskState' \in {"Polling", "TimedOut"})
         ]_vars
    /\ [](CallEnded /\ taskState # "None" => taskState \in TerminalStates)

\* C7 witness: a call went through polling to Done and returned its document
C7_Witness ==
    /\ parser \in AsyncParsers
    /\ pc = "returned"
    /\ taskState = "Done"
    /\ waited
    /\ doc # EmptyDocument

\* C8: a status request that fails with a network error never ends the
\* task: the task stays Polling, one poll interval is slept, and the loop
\* goes back to its top.
C8_TransientRetry ==
    [][(pc = "status" /\ netErrs' # netErrs) =>
          /\ taskState' = "Polling"
          /\ pc' = "poll"
          /\ elapsed' >= elapsed + POLL_INTERVAL
          /\ elapsed' <= elapsed + POLL_INTERVAL + MaxReqTime
          /\ UNCHANGED docVars
      ]_vars

\* C8 witness: after failed status requests a success status gave a document
C8_Witness ==
    /\ parser \in AsyncParsers
    /\ netErrs = MaxNetErrs
    /\ taskState = "Done"
    /\ pc = "returned"
    /\ failure = ""
    /\ doc # EmptyDocument

\* C9: MinerUParser picks the parser from (endpoint, token) alone: an
\* endpoint selects StdMinerUParser whatever the token, a token without an
\* endpoint selects MinerUAPIParser, neither selects StdMinerUParser.
C9_SelectorPrecedence ==
    (cls = "MinerUParser" /\ pc # "new") =>
        /\ (sel[1] # "" => parser = "StdMinerUParser")
        /\ (sel[1] = "" /\ sel[2] # "" => parser = "MinerUAPIParser")
        /\ (sel[1] = "" /\ sel[2] = "" => parser = "StdMinerUParser")

\* C9 witness: endpoint and token both set, StdMinerUParser chosen
C9_Witness ==
    /\ cls = "MinerUParser"
    /\ sel = <<"E", "K">>
    /\ parser = "StdMinerUParser"

\* the end-to-end case of C10: one inline image, referenced, decodable, and
\* uploaded with a URL, in a MinerUCloudParser call that polled to done
C10_Case ==
    /\ parser = "MinerUCloudParser"
    /\ pc = "returned"
    /\ taskState = "Done"
    /\ failure = ""
    /\ Len(cands) = 1
    /\ InlineKept(cands[1], md_content)
    /\ nUp = 1

\* C10: in that case the content holds the uploaded URL in place of
\* images/<id>, and images has exactly one entry, keyed by the URL, whose
\* value is the base64 text without the data-URI tag.
C10_EndToEnd ==
    C10_Case =>
        /\ IsSubstr(Url(1), doc.content)
        /\ ~IsSubstr(ImageToken(cands[1].key), doc.content)
        /\ Len(doc.content) = Len(md_content) - Len(ImageToken(cands[1].key)) + 1
        /\ doc.images = << <<Url(1), "AAAA">> >>

\* C10 witness: the case after a status that was not terminal at first
C10_Witness ==
    /\ C10_Case
    /\ waited
    /\ netErrs = 0
    /\ md_content = <<"T", "images", "/", "a", "T">>

\* the pair <<k, v>> is an entry of the dict d
HasEntry(d, k, v) == \E j \in 1..Len(d) : d[j] = <<k, v>>

\* a MinerUAPIParser call returned after every archive image was read and
\* uploaded with a URL
C11_AllUploaded ==
    /\ parser = "MinerUAPIParser"
    /\ pc = "returned"
    /\ taskState = "Done"
    /\ failure = ""
    /\ md_content # <<>>
    /\ NoUrl \notin DictKeys(images)

\* C11: when the markdown entry is D/full.md and an image entry D/P is
\* referenced in the markdown as P, the rewrite keys registered for the image
\* are P and ./P, both mapped to the one uploaded URL, and the returned
\* content holds that URL and no longer holds the literal path P.
C11_ArchiveRelativeKeys ==
    C11_AllUploaded =>
        LET D == DirName(cands[MdIndex(cands)].name)
        IN \A i \in 1..Len(cands) :
              LET name == cands[i].name
                  P == PathText(SubSeq(name, Len(D) + 1, Len(name)))
              IN (/\ IsImageName(name)
                  /\ cands[i].hasBytes
                  /\ Len(name) > Len(D)
                  /\ SubSeq(name, 1, Len(D)) = D
                  /\ IsSubstr(P, md_content))
                 => \E u \in DictKeys(doc.images) :
                       /\ HasEntry(image_replace, P, u)
                       /\ HasEntry(image_replace, <<".", "/">> \o P, u)
                       /\ IsSubstr(u, doc.content)
                       /\ ~IsSubstr(P, doc.content)

\* C11 witness: out/full.md referencing images/fig1.png, with the entry
\* out/images/fig1.png, came back rewritten to the uploaded URL
C11_Witness ==
    /\ C11_AllUploaded
    /\ cands[1].name = <<"out", "full.md">>
    /\ cands[2].name = <<"out", "images", "fig1.png">>
    /\ md_content = RefA
    /\ doc.content = <<"T", "url1", "T">>
    /\ image_replace = << <<PathText(<<"images", "fig1.png">>), Url(1)>>,
                          <<PathText(<<".", "images", "fig1.png">>), Url(1)>> >>

\* C12: the official-API task id is the data field of the submit response
\* when that is a string, and the id field of the data object when it is an
\* object: {"data": "abc123"} and {"data": {"id": "abc123"}} both give
\* "abc123", which is the id the call then polls with.
C12_TaskIdExtraction ==
    /\ \A b \in APISubmitBodies :
          /\ (b.kind = "str" => APITaskId(b) = b.str)
          /\ (b.kind = "dict" /\ b.id # "" => APITaskId(b) = b.id)
    /\ (parser = "MinerUAPIParser" /\ taskState # "None" => task_id = "abc123")
    /\ (parser = "MinerUAPIParser" /\ failure = "no_task_id" =>
           task_id = "" /\ taskState = "None")

\* C12 witness: a submit response gave the id and the call is polling with it
C12_Witness ==
    /\ parser = "MinerUAPIParser"
    /\ pc = "status"
    /\ taskState = "Polling"
    /\ task_id = "abc123"

\* a call of an inline strategy went through its image loop with no
\* candidate, as on an already reconciled (finalText, {})
C13_Case ==
    /\ parser \in {"StdMinerUParser", "MinerUCloudParser"}
    /\ pc = "returned"
    /\ failure = ""
    /\ log # <<>>
    /\ cands = <<>>

\* C13: the filter/upload/rewrite sequence run on (finalText, {}) returns
\* (finalText, {}) unchanged and performs no upload.
C13_ReconcileIdempotent ==
    C13_Case =>
        /\ doc.content = md_content
        /\ doc.images = <<>>
        /\ uploads = {}
        /\ nUp = 0
        /\ \A j \in 1..Len(log) : log[j] # "image"

\* C13 witness: a text that already holds an uploaded URL came back as is
C13_Witness ==
    /\ C13_Case
    /\ md_content = <<"T", "url1", "T">>
    /\ doc = [content |-> <<"T", "url1", "T">>, images |-> <<>>]

InlineParsers == {"StdMinerUParser", "MinerUCloudParser"}

\* the payload of candidate c cannot be decoded: the data-URI tag is missing,
\* or the base64 text decodes to nothing
C14_Undecodable(c) == ~c.payload.pre \/ c.payload.b64 = "!!"

\* C14: a candidate whose payload cannot be decoded is dropped alone: it is
\* not uploaded and adds no entry, its reference stays in the text, the
\* other referenced candidates are uploaded and rewritten, and the call
\* neither raises nor fails because of it.
C14_DecodeFailureLocal ==
    /\ (parser \in InlineParsers /\ pc = "raised" => failure = "image_upload")
    /\ (parser \in InlineParsers /\ pc = "returned" /\ failure = ""
            /\ log # <<>> =>
           LET ref == {i \in 1..Len(cands) :
                          IsSubstr(ImageToken(cands[i].key), md_content)}
               bad == {i \in ref : C14_Undecodable(cands[i])}
           IN /\ \A i \in bad :
                    /\ ImageToken(cands[i].key) \notin DictKeys(image_replace)
                    /\ ImageToken(cands[i].key) \notin uploads
                    /\ IsSubstr(ImageToken(cands[i].key), doc.content)
              /\ \A i \in ref \ bad :
                    storage =>
                       /\ ImageToken(cands[i].key) \in DictKeys(image_replace)
                       /\ ImageToken(cands[i].key) \in uploads
                       /\ ~IsSubstr(ImageToken(cands[i].key), doc.content)
              /\ Len(doc.images) <= Cardinality(ref \ bad)
              /\ Len(image_replace) = IF storage THEN Cardinality(ref \ bad)
                                      ELSE 0)

\* C14 witness: of two referenced candidates the first did not decode, the
\* second was uploaded and rewritten
C14_Witness ==
    /\ parser \in InlineParsers
    /\ pc = "returned"
    /\ failure = ""
    /\ Len(cands) = 2
    /\ cands[1].payload.b64 = "!!"
    /\ md_content = <<"images", "/", "a", "T", "images", "/", "b">>
    /\ doc = [content |-> <<"images", "/", "a", "T", "url1">>,
              images |-> << <<Url(1), "AAAA">> >>]

\* C15: a BlobStore failure on one image (the upload raising, or returning
\* no URL) costs that image only, in every strategy: the call still returns
\* the markdown text, and the failed image adds no entry and no null key to
\* images.
C15_UploadFailureLocal ==
    /\ NoUrl \notin DictKeys(images)
    /\ (failure = "image_upload" =>
           /\ pc # "raised"
           /\ (pc = "returned" =>
                  /\ doc.content # <<>>
                  /\ NoUrl \notin DictKeys(doc.images)))

\* everything a parse call reads besides the instance and the responses
C16_Locals == <<taskState, elapsed, netErrs, task_id, state, status_json,
                md_content, cands, idx, images, image_replace, uploads, nUp,
                file_url, waited, failure>>

C17_SuccessWords ==
    IF parser = "MinerUCloudParser" THEN {"done", "success"}
    ELSE {"done", "success", "completed", "succeeded"}

C17_FailureWords ==
    IF parser = "MinerUCloudParser" THEN {"failed"} ELSE {"failed", "error"}

C18_Order ==
    IF parser = "MinerUCloudParser"
    THEN <<"submit", "status", "result", "image">>
    ELSE <<"source", "submit", "status", "result", "image">>

C18_Sent(kind) == \E j \in 1..Len(log) : log[j] = kind

\* C18: in one async call the submit request comes before every status
\* request; the result is fetched at most once, and only after a status
\* response with a success word, never after a failure word or a timeout;
\* images are uploaded only after the result was fetched; the call waits for
\* each request before it issues the next.
C18_RequestOrder ==
    parser \in AsyncParsers =>
        /\ Len(log) <= Len(C18_Order)
        /\ log = SubSeq(C18_Order, 1, Len(log))
        /\ (C18_Sent("result") =>
               taskState = "Done" /\ state \in C17_SuccessWords)
        /\ (taskState \in {"Failed", "TimedOut"} =>
               ~C18_Sent("result") /\ ~C18_Sent("image") /\ uploads = {})
        /\ (pc \in {"submit", "api_submit"} => log[Len(log)] = "submit")
        /\ (pc = "status" => log[Len(log)] = "status")
        /\ (pc \in {"result", "zip"} => log[Len(log)] = "result")
        /\ (uploads # {} => C18_Sent("result") /\ log[Len(log)] = "image")

\* C18 witness: a call that polled, fetched the result once and uploaded
\* two images
C18_Witness ==
    /\ parser = "MinerUCloudParser"
    /\ pc = "returned"
    /\ waited
    /\ nUp = 2
    /\ log = <<"submit", "status", "result", "image">>

\* C19: every parse call eventually returns (or, in StdMinerUParser, is
\* left by an exception): the poll loop cannot run forever, because every
\* iteration that does not end it sleeps one poll interval and the check at
\* its top ends it once the maximum wait has passed.
C19_CallTerminates ==
    (pc \notin {"new", "idle", "returned", "raised"}) ~> CallEnded

\* C19 witness: a call that polled up to the maximum wait and was ended by
\* the check at the top of the loop
C19_Witness ==
    /\ parser \in AsyncParsers
    /\ pc = "returned"
    /\ taskState = "TimedOut"
    /\ elapsed > MAX_WAIT_TIME
    /\ netErrs = MaxNetErrs

\* the orders in which the entries of the dict d can be taken
C20_Orders(d) ==
    LET n == Len(d)
        perms == {f \in [1..n -> 1..n] : \A i, j \in 1..n : f[i] = f[j] => i = j}
    IN {[i \in 1..n |-> d[f[i]]] : f \in perms}

\* C20: the rewritten text depends on the reference -> URL map alone:
\* replacing the tokens of the map a call built in any order gives the text
\* the call returned, also when both P and ./P are registered.
C20_RewriteOrderFree ==
    (pc = "returned" /\ failure = "" /\ image_replace # <<>>) =>
        \A order \in C20_Orders(image_replace) :
            ReplacePath(md_content, order) = doc.content

\* C21 as claimed: the default BlobStore receives the input bytes exactly
\* when the secondary (OSS) uploader is not configured.
C21_StorageIffUnconfigured ==
    (parser = "MinerUAPIParser" /\ pc = "src_upload") => ~oss

\* C21 as amended: the OSS uploader is tried exactly when it is configured,
\* and a URL it returns is the source URL; the default BlobStore receives
\* the input bytes when the OSS uploader is not configured, and also when
\* it is configured but gave no URL (it returned None or raised).
C21_StorageUnlessOssUrl ==
    [][parser = "MinerUAPIParser" =>
          /\ (CallEnded /\ api_token # "" =>
                 pc' = IF oss THEN "oss_upload" ELSE "src_upload")
          /\ (pc' = "oss_upload" => oss)
          /\ (pc = "oss_upload" =>
                 \/ file_url' = OssUrl /\ pc' = "api_submit"
                 \/ file_url' = <<>> /\ pc' = "src_upload")
          /\ (pc' = "src_upload" =>
                 \/ ~oss /\ CallEnded
                 \/ oss /\ pc = "oss_upload" /\ file_url' = <<>>)
          /\ (pc' = "api_submit" /\ pc = "src_upload" =>
                 file_url' \in StorageUrls)
      ]_vars

\* C21 witness: the OSS uploader is configured, gave no URL, and the URL of
\* the default BlobStore goes out with the submission
C21_Witness ==
    /\ parser = "MinerUAPIParser"
    /\ oss
    /\ pc = "api_submit"
    /\ file_url \in StorageUrls

\* C22: a resolved source URL is submitted whatever it holds, a
\* local-network marker (localhost, 127.0.0.1, minio, host.docker.internal)
\* included; when no source URL was resolved the call returns the empty
\* document and no submission goes out.
C22_LocalUrlStillSubmitted ==
    [][parser = "MinerUAPIParser" =>
          /\ (pc \in {"oss_upload", "src_upload"} /\ file_url' # <<>> =>
                 /\ pc' = "api_submit"
                 /\ log' = Append(log, "submit")
                 /\ UNCHANGED docVars)
          /\ (pc = "src_upload" /\ file_url' = <<>> =>
                 /\ pc' = "returned"
                 /\ doc' = EmptyDocument
                 /\ failure' = "source_upload"
                 /\ log' = <<"source">>)
          /\ (pc' = "api_submit" => file_url' # <<>>)
      ]_vars

\* C22 witness: the submission is in flight with a URL on localhost
C22_Witness ==
    /\ parser = "MinerUAPIParser"
    /\ pc = "api_submit"
    /\ HasLocalMarker(file_url)
    /\ IsSubstr(<<"localhost">>, file_url)
    /\ log = <<"source", "submit">>

\* the status word of a response as C23 states it: state, else status, under
\* data; when neither is there, state, else status, at the root
C23_Word(b) ==
    IF b.d_state # "" THEN b.d_state
    ELSE IF b.d_status # "" THEN b.d_status
    ELSE IF b.state # "" THEN b.state
    ELSE b.status

\* C23: the official-API status word is the value nested under data when
\* there is one, else the top-level value; the response is a success iff the
\* word is one of done, success, completed, succeeded, and a failure iff it
\* is one of failed, error, at whichever level the word was found.
C23_StatusExtraction ==
    /\ \A b \in APIStatusBodies :
          /\ APIState(b) = C23_Word(b)
          /\ (APIIsSuccess(APIState(b)) <=>
                 C23_Word(b) \in {"done", "success", "completed", "succeeded"})
          /\ (APIIsFailure(APIState(b)) <=> C23_Word(b) \in {"failed", "error"})
    /\ (parser = "MinerUAPIParser" /\ status_json # NoBody =>
           /\ state = C23_Word(status_json)
           /\ taskState \in {"Done", "Failed"}
           /\ (taskState = "Done" <=>
                  state \in {"done", "success", "completed", "succeeded"})
           /\ (taskState = "Failed" <=>
                  state \in {"failed", "error"} /\ failure = "remote"))
    /\ (parser = "MinerUAPIParser" /\ pc \in {"poll", "status"} =>
           state \notin {"done", "success", "completed", "succeeded",
                         "failed", "error"})

\* C23 witness: a response with nothing under data and "error" at the top
\* level failed the call
C23_Witness ==
    /\ parser = "MinerUAPIParser"
    /\ status_json = StatusBody("", "", "", "", "error", "", "")
    /\ state = "error"
    /\ taskState = "Failed"
    /\ pc = "returned"

\* the ZIP URL a success payload holds: full_zip_url, else another field
\* ending in zip_url, under data or at the top level
C24_PayloadZipUrl(b) ==
    IF b.d_full_zip_url # "" THEN b.d_full_zip_url
    ELSE IF b.full_zip_url # "" THEN b.full_zip_url
    ELSE b.d_other_zip_url

\* C24: on a success status the ZIP URL of the payload is downloaded,
\* whether the success state was found under data or at the top level; only
\* a payload without any non-empty zip_url field yields the empty document.
C24_ZipUrlAnyLevel ==
    (parser = "MinerUAPIParser" /\ taskState = "Done" /\ status_json # NoBody)
    => /\ (C24_PayloadZipUrl(status_json) # "" =>
              failure # "no_zip_url" /\ C18_Sent("result"))
       /\ (failure = "no_zip_url" =>
              doc = EmptyDocument /\ C24_PayloadZipUrl(status_json) = "")

\* C25: the markdown of the result archive is the first entry ending in
\* full.md outside __MACOSX, wherever it stands among the other .md entries;
\* without one, the first other .md entry outside __MACOSX; an archive with
\* no such entry gives the empty document.
C25_MarkdownSelection ==
    (parser = "MinerUAPIParser" /\ cands # <<>>) =>
        LET last(i) == cands[i].name[Len(cands[i].name)]
            eligible == {i \in 1..Len(cands) :
                            /\ last(i) \in {"full.md", "other.md"}
                            /\ cands[i].name[1] # "__MACOSX"}
            full == {i \in eligible : last(i) = "full.md"}
            pool == IF full # {} THEN full ELSE eligible
        IN /\ (eligible = {} <=> failure = "no_markdown")
           /\ (failure = "no_markdown" =>
                  pc = "returned" /\ doc = EmptyDocument /\ uploads = {})
           /\ (eligible # {} =>
                  \E i \in pool :
                     /\ \A j \in pool : i <= j
                     /\ md_content = cands[i].text)

\* C25 witness: other.md stands before full.md in the archive and the text
\* of full.md was returned
C25_Witness ==
    /\ parser = "MinerUAPIParser"
    /\ pc = "returned"
    /\ Len(cands) = 3
    /\ cands[1].name = <<"other.md">>
    /\ cands[2].name = <<"full.md">>
    /\ md_content = RefA
    /\ doc.content = <<"T", "url1", "T">>

\* C26: the self-hosted task id is the top-level task_id of the submit
\* response, else the one nested under data; a response with neither ends
\* the call with the empty document before any status or result request.
C26_CloudTaskId ==
    /\ \A b \in CloudSubmitBodies :
          CloudTaskId(b) = IF b.task_id # "" THEN b.task_id
                           ELSE b.data.task_id
    /\ (parser = "MinerUCloudParser" /\ taskState # "None" => task_id = "t1")
    /\ (parser = "MinerUCloudParser" /\ failure = "no_task_id" =>
           /\ pc = "returned"
           /\ doc = EmptyDocument
           /\ taskState = "None"
           /\ task_id = ""
           /\ log = <<"submit">>)

\* C26 witness: a submit response without a task id ended the call
C26_Witness ==
    /\ parser = "MinerUCloudParser"
    /\ enable
    /\ failure = "no_task_id"
    /\ pc = "returned"
    /\ doc = EmptyDocument

\* C27: a MinerUCloudParser whose probe (GET /docs) failed at construction
\* returns the empty document from every parse call, issues no submit,
\* status or result request, and is never probed again.
C27_CloudProbeGate ==
    /\ []((parser = "MinerUCloudParser" /\ ~enable) =>
             /\ pc \in {"idle", "returned"}
             /\ (pc = "returned" => doc = EmptyDocument)
             /\ log = <<>>
             /\ taskState = "None"
             /\ uploads = {})
    /\ [][parser = "MinerUCloudParser" => enable' = enable]_vars

\* C27 witness: an endpoint is set, the probe failed, and a call returned
C27_Witness ==
    /\ parser = "MinerUCloudParser"
    /\ minerU = "E"
    /\ ~enable
    /\ pc = "returned"
    /\ doc = EmptyDocument

\* C28: a MinerUAPIParser without an API token returns the empty document
\* from every parse call, uploads nothing and sends no submit or status
\* request; with a token it is enabled and its calls go on to the source
\* upload whatever the probe inherited from StdMinerUParser.__init__ found.
C28_APITokenGate ==
    /\ []((parser = "MinerUAPIParser" /\ pc # "new") =>
             /\ enable
             /\ (api_token = "" =>
                    /\ pc \in {"idle", "returned"}
                    /\ (pc = "returned" => doc = EmptyDocument)
                    /\ log = <<>>
                    /\ file_url = <<>>
                    /\ uploads = {}
                    /\ taskState = "None"))
    /\ [][(parser = "MinerUAPIParser" /\ CallEnded /\ api_token # "") =>
              pc' \in {"oss_upload", "src_upload"} /\ log' = <<"source">>
         ]_vars

\* C28 witness: no endpoint is set, so the probe failed, and with a token
\* the submission went out all the same
C28_Witness ==
    /\ parser = "MinerUAPIParser"
    /\ minerU = ""
    /\ api_token = "K"
    /\ pc = "status"
    /\ log = <<"source", "submit", "status">>

\* status words that end the poll loop of MinerUAPIParser only
C29_ApiOnlyWords == {"error", "completed", "succeeded"}

\* C29: in MinerUCloudParser only done and success end the poll loop with
\* success and only failed ends it with failure. A status of error,
\* completed or succeeded keeps the loop running: while the status
\* responses keep reporting such a word the call is ended by the
\* maximum-wait check alone, and it is ended by it eventually. In
\* MinerUAPIParser the loop never goes on after one of these words.
C29_CloudTerminalWords ==
    /\ [](parser = "MinerUCloudParser" =>
             /\ (taskState = "Done" => state \in {"done", "success"})
             /\ (failure = "remote" => state = "failed")
             /\ (pc \in {"poll", "status"} =>
                    state \notin {"done", "success", "failed"}))
    /\ [](parser = "MinerUAPIParser" /\ pc \in {"poll", "status"} =>
             state \notin C29_ApiOnlyWords)
    /\ [][(/\ parser = "MinerUCloudParser"
           /\ pc \in {"poll", "status"}
           /\ state' \in C29_ApiOnlyWords
           /\ failure' # "status_body") =>
              \/ pc' \in {"poll", "status"}
              \/ /\ pc = "poll"
                 /\ elapsed > MAX_WAIT_TIME
                 /\ taskState' = "TimedOut"
                 /\ failure' = "timeout"
                 /\ pc' = "returned"
                 /\ doc' = EmptyDocument
         ]_vars
    /\ ((/\ parser = "MinerUCloudParser"
          /\ pc \in {"poll", "status"}
          /\ state \in C29_ApiOnlyWords)
            ~> (state \notin C29_ApiOnlyWords \/ pc = "returned"))

\* C29 witness: every status response of a MinerUCloudParser call said
\* "completed" and the call was ended by the maximum-wait check
C29_Witness ==
    /\ parser = "MinerUCloudParser"
    /\ pc = "returned"
    /\ state = "completed"
    /\ taskState = "TimedOut"
    /\ failure = "timeout"
    /\ netErrs = 0
    /\ log = <<"submit", "status">>

\* C30: of the processes a ScheduledTask started at most one is alive at
\* any time, and it is the one task.process refers to: run_if_needed starts
\* a process only when none of the task's earlier ones is still alive.
\* Processes of different tasks run side by side.
C30_OneProcessPerTask ==
    /\ [](\A t \in TaskNames :
             /\ alive[t] <= 1
             /\ alive[t] = IF process[t] = "running" THEN 1 ELSE 0)
    /\ [][\A t \in TaskNames :
              alive'[t] > alive[t] =>
                  /\ alive[t] = 0
                  /\ process[t] # "running"
                  /\ sched_pc = "for"
                  /\ tasks[task_i] = t
         ]_vars

\* C30 witness: the process of "Polling Task" started on the first pass is
\* still alive after its interval has passed and a later pass has left it
\* alone, while "Submit Task" has exited and been started a second time
C30_Witness ==
    /\ sched_pc = "sleep"
    /\ now >= Boot + PollingInterval
    /\ process["Polling Task"] = "running"
    /\ last_run_time["Polling Task"] = Boot
    /\ process["Submit Task"] = "running"
    /\ last_run_time["Submit Task"] = now
    /\ alive["Discover Files"] = 1

\* a step of the scheduler that is one run_if_needed call
C31_IsCall ==
    /\ sched_pc = "for"
    /\ sched_pc' # "stopped"
    /\ <<task_i, sched_pc>>' # <<task_i, sched_pc>>

\* C31: a task is started only when at least its interval_seconds have
\* passed since its previous start (by the clock run_if_needed reads); on
\* the first pass of the loop every task is started unless Popen raises; a
\* Popen that raises leaves last_run_time and the handle as they were, and
\* every later run_if_needed of a task that is due and not running tries
\* the start again.
C31_Spacing ==
    /\ [](\A t \in TaskNames : last_run_time[t] = started[t])
    /\ [][\A t \in TaskNames :
              alive'[t] > alive[t] =>
                  /\ started'[t] = now
                  /\ (started[t] # 0 =>
                         started'[t] - started[t] >= interval_seconds[t])
         ]_vars
    /\ []((sched_pc = "sleep" /\ now = Boot /\ popen_fails = 0) =>
             \A t \in TaskNames : started[t] = Boot /\ alive[t] <= 1)
    /\ [][popen_fails' > popen_fails =>
              /\ last_run_time' = last_run_time
              /\ alive' = alive
              /\ process'[tasks[task_i]] = "None"
         ]_vars
    /\ [][(/\ C31_IsCall
           /\ process[tasks[task_i]] # "running"
           /\ now - last_run_time[tasks[task_i]] >=
                 interval_seconds[tasks[task_i]]) =>
              \/ started'[tasks[task_i]] = now /\ popen_fails' = popen_fails
              \/ popen_fails' = popen_fails + 1
         ]_vars

\* C31 witness: "Polling Task" could not be started on the first pass and
\* was started on the next one; "Submit Task" runs for the second time,
\* started exactly its interval after the first
C31_Witness ==
    /\ popen_fails = 1
    /\ started["Polling Task"] = Boot + SleepSeconds
    /\ started["Submit Task"] = Boot + SubmitInterval
    /\ process["Submit Task"] = "running"

\* C32: the UPDATE by which discover_files resets a row to 'discover' with
\* a NULL knowledge_id never hits a row that is 'processing' when the
\* UPDATE runs, whatever submit_task or polling_task committed since
\* discover_files read the table.
C32_NeverResetsProcessing ==
    [][\A fp \in Paths :
          (/\ d_pc = "update"
           /\ txn'[fp] # txn[fp]
           /\ txn'[fp].file_status = "discover") =>
              rows[fp].file_status # "processing"
      ]_vars

\* C33: a commit of polling_task changes the file_status only of a row
\* that is 'pending' or 'processing' when the UPDATE runs, so a row that
\* discover_files has marked 'deleted' or reset to 'discover' since
\* polling_task read the table is left alone, and no row is 'completed'
\* with a NULL knowledge_id.
C33_PollingWritesActiveRows ==
    /\ [][\A fp \in Paths :
              (/\ p_pc = "loop"
               /\ p_left' # p_left
               /\ rows'[fp].file_status # rows[fp].file_status) =>
                  rows[fp].file_status \in {"pending", "processing"}
         ]_vars
    /\ [](\A fp \in Paths :
             rows[fp].file_status = "completed" => rows[fp].knowledge_id # 0)

\* C34: when a discover_files run ends, every file its scan found has a
\* row whose file_status is not 'deleted', the files included whose row an
\* earlier run marked 'deleted'; a run that found such a file reports
\* success.
C34_FoundFilesHaveLiveRows ==
    [][(d_pc = "record" /\ d_pc' = "idle") =>
          \A fp \in Paths :
              current_files[fp] # NoFile =>
                  /\ rows'[fp].file_status \notin {"", "deleted"}
                  /\ (rows[fp].file_status = "deleted" => record' = "success")
      ]_vars

\* C35: when discover_files resets a row to 'discover' or marks it
\* 'deleted', the knowledge the row referred to is gone from the RAG
\* system: after a delete call that failed the row is not written.
C35_RowWrittenAfterDelete ==
    [][\A fp \in Paths :
          (/\ d_pc \in {"update", "delete"}
           /\ txn'[fp] # txn[fp]
           /\ db_files[fp].knowledge_id # 0) =>
              remote'[db_files[fp].knowledge_id] = "absent"
      ]_vars

\* C36: submit_task takes only rows that are 'discover' in its SELECT, each
\* once; every row it has submitted is out of 'discover' when the
\* iteration ends: 'failed' after a failed submission, and after a
\* successful one the parse_status of the response ('processing' without
\* one) with a knowledge_id that is not NULL; a 'failed' row becomes
\* 'discover' again only by a commit of discover_files.
C36_SubmittedRowsLeaveDiscover ==
    /\ [][s_pc = "select" /\ s_pc' # "select" =>
              s_left' \subseteq {p \in Paths : rows[p].file_status = "discover"}
         ]_vars
    /\ [][\A fp \in Paths :
              (/\ s_pc = "loop"
               /\ fp \in s_left
               /\ (s_pc' # "loop" \/ fp \notin s_left')) =>
                  /\ fp \notin s_left'
                  /\ \/ rows'[fp].file_status = "failed" /\ remote' = remote
                     \/ /\ remote' # remote
                        /\ rows'[fp].file_status = remote'[next_kid']
                        /\ rows'[fp].knowledge_id = next_kid'
         ]_vars
    /\ [][\A fp \in Paths :
              (rows[fp].file_status = "failed"
                 /\ rows'[fp].file_status = "discover") => d_pc = "commit"
         ]_vars

\* C37: with polling_task started again and again, every row that is
\* 'pending' or 'processing' is in time among the tasks polling_task
\* checks against the RAG system (or has left these two states), the rows
\* with a NULL knowledge_id included.
C37_ActiveRowsChecked ==
    \A fp \in Paths :
        (rows[fp].file_status \in {"pending", "processing"})
            ~> (\/ p_tasks[fp] # NoRow
                \/ rows[fp].file_status \notin {"pending", "processing"})

\* C38: a discover_files run that raised before its commit leaves the
\* committed rows of document_status_table as they were, and ends with its
\* script_process_record row written with status 'fail', also when the
\* connection of the failed run still holds its open write transaction.
C38_FailedRunRecorded ==
    [][(/\ d_pc = "record"
        /\ d_status = "fail"
        /\ lock \in {"", "discover_files.py"}
        /\ d_pc' = "idle") =>
            /\ rows' = rows
            /\ record' = "fail"
      ]_vars

=============================================================================
